---- MODULE Spec2Model ----
(***************************************************************************)
(* Control-plane handlers of the RSI 91x mac80211 glue                     *)
(* (drivers/net/wireless/rsi/rsi_91x_mac80211.c) as a state machine.       *)
(*                                                                         *)
(* The handlers run under common->mutex, so one handler is one action;     *)
(* start sends its command after it unlocked and is two actions, and the   *)
(* receive path (rsi_indicate_pkt_to_os, rsi_perform_cqm) runs without the *)
(* mutex.                                                                  *)
(* The firmware helpers (rsi_set_vap_capabilities, rsi_set_channel, ...)   *)
(* live outside this file: each is a command whose outcome (success or     *)
(* failure) is an input of the action, and the commands a call issued are  *)
(* kept in the history variable cmds.                                      *)
(*                                                                         *)
(* The MDIO bus multiplexer (drivers/net/phy/mdio-mux.c) is a second,      *)
(* independent machine in the variable mux: the steps of the callers of    *)
(* mdio_mux_read and mdio_mux_write, interleaved.                          *)
(***************************************************************************)
EXTENDS Integers, Sequences, FiniteSets, TLC

\* ------------------------------------------------------------------ bounds
NumStaVifs == 2      \* station-type interface objects the stack may pass
MaxChan == 2         \* channel numbers 1..MaxChan
MaxPower == 1        \* power levels 0..MaxPower
MaxUnderflow == 1    \* sc_nvifs is followed down to -MaxUnderflow
MaxTid == 1          \* traffic identifiers 0..MaxTid
MaxSsn == 1          \* starting sequence numbers 0..MaxSsn
MaxSignal == 1       \* signal readings around zero: -MaxSignal..MaxSignal
MaxQueue == 4        \* conf_tx queue indices 0..MaxQueue
MaxParams == 1       \* EDCA parameter sets 0..MaxParams
MaxFilterBit == 2    \* filter flag words use bits 0..MaxFilterBit
MaxAnt == 2          \* antenna selectors 0..MaxAnt (and 0xffffffff)
MaxRegion == 4       \* dfs_region values 0..MaxRegion of a regulatory request
Max5GChan == 1       \* channels 1..Max5GChan of the 5 GHz band
NumMuxCallers == 2   \* threads that call into child buses of one parent
MaxChild == 1        \* child buses have the bus numbers 0..MaxChild
MaxMuxErr == 1       \* switch_fn and the parent bus fail with -1..-MaxMuxErr
MaxMdioVal == 1      \* a register read returns 0..MaxMdioVal

\* ------------------------------------------------------- program constants
EOPNOTSUPP == 95
EINVAL == 22
FW_FAIL == -1
RSI_MAX_VIFS == 1
WLAN_CIPHER_SUITE_WEP40 == 1027073
WLAN_CIPHER_SUITE_WEP104 == 1027077
CIPHER_NOT_WEP == 1027076   \* a key->cipher value that is neither WEP suite
IEEE80211_NUM_ACS == 4
IEEE80211_AC_VO == 0
IEEE80211_AC_VI == 1
IEEE80211_AC_BE == 2
IEEE80211_AC_BK == 3
\* enum nl80211_dfs_regions.
NL80211_DFS_UNSET == 0
NL80211_DFS_FCC == 1
NL80211_DFS_ETSI == 2
NL80211_DFS_JP == 3
\* The driver's region codes and antenna selections, by name.
RSI_REGION_FCC == "RSI_REGION_FCC"
RSI_REGION_ETSI == "RSI_REGION_ETSI"
RSI_REGION_TELEC == "RSI_REGION_TELEC"
RSI_REGION_WORLD == "RSI_REGION_WORLD"
ANTENNA_SEL_INT == "ANTENNA_SEL_INT"
ANTENNA_SEL_UFL == "ANTENNA_SEL_UFL"
\* The supported filter flags: a word with bit 1 clear and bits 0 and 2 set.
RSI_SUPP_FILTERS == 5

NULL == 0
StaVifs == 1..NumStaVifs
ApVif == NumStaVifs + 1
Vifs == StaVifs \cup {ApVif}
AnyVif == CHOOSE v \in StaVifs : TRUE
Channels == 1..MaxChan
PowerLevels == 0..MaxPower
Ciphers == {WLAN_CIPHER_SUITE_WEP40, WLAN_CIPHER_SUITE_WEP104,
            CIPHER_NOT_WEP}
Tids == 0..MaxTid
Ssns == 0..MaxSsn
NoSsn == -1
\* The slots of common->edca_params, by the names the handler indexes with.
EdcaQueues == {"BK_Q", "BE_Q", "VI_Q", "VO_Q"}
EdcaParams == 0..MaxParams
Queues == 0..MaxQueue
\* Signal readings in dBm: a falling run across -70, and values around zero.
Readings == <<-60, -75, -72, -80>>
Tholds == {-70, 0}
Hysts == {0, 5}
Signals ==
  {Readings[i] : i \in DOMAIN Readings} \cup Tholds
    \cup (-MaxSignal..MaxSignal)
NoReport == 128
\* Filter flag words, antenna selectors (u32: -1 stands for 0xffffffff),
\* regulatory requests and the flags of a channel.
FilterFlags == 0..(2 ^ (MaxFilterBit + 1) - 1)
AntArgs == (0..MaxAnt) \cup {-1}
DfsRegions == 0..MaxRegion
Alpha2s == {<<"U", "S">>, <<"J", "P">>}
Chans5G == 1..Max5GChan
ChanFlags ==
  {"IEEE80211_CHAN_DISABLED", "IEEE80211_CHAN_RADAR", "IEEE80211_CHAN_NO_IR"}

VARIABLES
  sc_nvifs,             \* adapter->sc_nvifs (int)
  vifs,                 \* adapter->vifs[RSI_MAX_VIFS]: interface id or NULL
  bss,                  \* adapter->vifs[0]->bss_conf: the stack's bss_conf of
                        \* the stored interface object (NoBss when none)
  hw_data_qs_blocked,   \* common->hw_data_qs_blocked
  tx_power,             \* common->tx_power
  secinfo,              \* common->secinfo
  mutex,                \* common->mutex: "free" or "held"
  nullptr,              \* "none", or a handler dereferenced a null interface
                        \* pointer: "read" (it went on) or "fault" (it died)
  vif_info,             \* common->vif_info[RSI_MAX_VIFS]: seq_start per slot
  cqm_info,             \* common->cqm_info
  edca_params,          \* common->edca_params[NUM_EDCA_QUEUES]
  iface_down,           \* common->iface_down
  ant_in_use,           \* common->ant_in_use
  dfs_region,           \* adapter->dfs_region
  country,              \* adapter->country[0..1]
  num_supp_bands,       \* common->num_supp_bands
  sband,                \* wiphy->bands[NL80211_BAND_5GHZ]->channels[].flags
  pc,                   \* where the caller of start and the receive path
                        \* are: start between its unlock and its filter
                        \* command, rsi_indicate_pkt_to_os between its test
                        \* and its delivery
  mux,                  \* the MDIO multiplexer of mdio-mux.c: its parent
                        \* bus, the callers of its child buses and the last
                        \* thing that happened on it (see NoMux)
  upcalls,              \* history: the notifications the last call made to
                        \* the stack, in order
  ba_hist,              \* history of the TX_START calls (see TxStarted)
  cqm_fed,              \* history of the readings the monitor evaluated
                        \* since it was configured (see NoReadings)
  call,                 \* history: the last handler call and its arguments
  ret,                  \* history: its return value (0 for a void handler)
  cmds,                 \* history: the firmware commands it issued, in order
  pre                   \* history: the device state when it was entered

\* The variables of start, stop, the receive path and the simple setters.
linkvars ==
  <<iface_down, ant_in_use, dfs_region, country, num_supp_bands, sband, pc,
    mux>>

vars == <<sc_nvifs, vifs, bss, hw_data_qs_blocked, tx_power, secinfo,
          mutex, nullptr, vif_info, cqm_info, edca_params, iface_down,
          ant_in_use, dfs_region, country, num_supp_bands, sband, pc, mux,
          upcalls, ba_hist, cqm_fed, call, ret, cmds, pre>>

\* The driver's own state as one record (what pre remembers).
DevState ==
  [sc_nvifs |-> sc_nvifs, vifs |-> vifs,
   hw_data_qs_blocked |-> hw_data_qs_blocked, tx_power |-> tx_power,
   secinfo |-> secinfo, vif_info |-> vif_info, cqm_info |-> cqm_info,
   edca_params |-> edca_params, iface_down |-> iface_down,
   ant_in_use |-> ant_in_use, dfs_region |-> dfs_region, country |-> country]

\* A handler call: every call record has the same fields.
NoArgs ==
  [name |-> "attach", vif |-> NULL, changed |-> {}, chan |-> 0, power |-> 0,
   assoc |-> FALSE, conn |-> 0, cmd |-> "NONE", pairwise |-> FALSE,
   cipher |-> 0, action |-> "NONE", tid |-> 0, ssn |-> 0, buf_size |-> 0,
   ii |-> 0, rssi |-> 0, thold |-> 0, hyst |-> 0, queue |-> 0, params |-> 0, locked |-> TRUE,
   unlocks |-> 1,
   flags |-> 0, tx_ant |-> 0, rx_ant |-> 0, region |-> 0,
   alpha2 |-> <<"0", "0">>]

\* locked tells whether the step took common->mutex and unlocks how many
\* times it released it: a handler that locks at its entry and unlocks at its
\* one exit has the defaults.
Call(name, args) == args @@ [NoArgs EXCEPT !.name = name]

\* common->mutex after a handler that locked it and unlocked it n times.
MutexAfter(n) == IF n = 0 THEN "held" ELSE "free"

\* One request on the command channel: its opcode, its arguments, whether the
\* firmware accepted it, and hw_data_qs_blocked at the moment it was issued.
FwCmd(c, arg, ok) ==
  [cmd |-> c, arg |-> arg, ok |-> ok, blk |-> hw_data_qs_blocked]

FwRet(ok) == IF ok THEN 0 ELSE FW_FAIL

\* One notification to the stack: the mac80211 function called, the
\* interface it is called for and its argument.
Upcall(fn, vif, arg) == [fn |-> fn, vif |-> vif, arg |-> arg]

\* vif->type: the last interface object is an access point, the others are
\* stations.
VifType(v) == IF v = ApVif THEN "AP" ELSE "STATION"

\* struct ieee80211_vif as the bytes memcmp sees: two interface objects
\* differ at least in their address.
VifObj(v) == [addr |-> v, type |-> VifType(v)]

\* bss_conf as far as the handlers read it: the association flag and the
\* hw_value of chandef.chan.
BssConfs == [assoc : BOOLEAN, chan : Channels]
NoBss == [assoc |-> FALSE, chan |-> 1]

\* What ba_hist remembers of the ampdu_action calls made for the interface
\* in slot 0: the tid and ssn of the most recent TX_START (last) and of the
\* TX_START before it (before), the tids given a TX stop action since the
\* most recent TX_START (stopped), and whether sta_remove ran since then
\* (reset) and whether the interface was removed since then (removed).
NoStart == [tid |-> NoSsn, ssn |-> NoSsn]
NoTxStart ==
  [last |-> NoStart, before |-> NoStart, stopped |-> {}, reset |-> FALSE,
   removed |-> FALSE]

\* What cqm_fed remembers since the monitor was configured: the reading of
\* the last event raised (NoReport when none was) and its kind, the same two
\* as they were before the last reading was evaluated (prior, prior_kind),
\* and, as long as the readings evaluated are Readings[1], Readings[2], ...
\* in order (on), the outcome of each of them (trace).
NoReadings ==
  [reported |-> NoReport, kind |-> "NONE", prior |-> NoReport,
   prior_kind |-> "NONE", on |-> TRUE, trace |-> <<>>]

\* Mutant of memcmp_vif: only the type field is compared.
memcmp_vif_type_only(a, b) == IF VifType(a) = VifType(b) THEN 0 ELSE 1

\* memcmp(a, b, sizeof(struct ieee80211_vif)) on two non-null interfaces.
memcmp_vif(a, b) == IF VifObj(a) = VifObj(b) THEN 0 ELSE 1

\* ----------------------------------------------------- the MDIO multiplexer
\* One struct mdio_mux_parent_bus with its child buses.  A caller of
\* mdio_mux_read or mdio_mux_write is idle, waits for the parent's mdio_lock,
\* holds it ("locked"), has switched ("switched") or is at the label out
\* ("out"); op, child and the rest are the locals of its call: sw is what
\* switch_fn returned, cur0 is current_child as passed to switch_fn, xfers
\* counts the transfers it made on the parent bus and r is its return value.
MuxCallers == 1..NumMuxCallers
ChildBuses == 0..MaxChild
NoChild == -1
MuxOps == {"read", "write"}
SwitchRets == (-MaxMuxErr)..0
XferRets(op) == IF op = "read" THEN (-MaxMuxErr)..MaxMdioVal
                               ELSE (-MaxMuxErr)..0

MuxIdle ==
  [pc |-> "idle", op |-> "none", child |-> 0, sw |-> 0, cur0 |-> NoChild,
   xfers |-> 0, r |-> 0]

\* What the last step on the multiplexer was, when it was a transfer on the
\* parent bus or the return of a call, with the caller t, its locals and, for a transfer,
\* the holder of mdio_lock, current_child and the position sel of the mux at
\* that moment.
NoMuxEvent ==
  [kind |-> "none", t |-> 0, op |-> "none", child |-> 0, sel |-> NoChild,
   cur |-> NoChild, cur0 |-> NoChild, holder |-> 0, sw |-> 0, xfers |-> 0,
   r |-> 0]

\* The multiplexer after mdio_mux_init: current_child is -1, the lock is
\* free (holder 0) and the mux is not known to be on any child (sel).
NoMux ==
  [mdio_lock |-> 0, current_child |-> NoChild, sel |-> NoChild,
   proc |-> [t \in MuxCallers |-> MuxIdle], last |-> NoMuxEvent]

\* The device after rsi_mac80211_attach, but for the fields that start,
\* stop, the antenna setter and the regulatory notifier write.
Attached ==
  /\ sc_nvifs = 0
  /\ vifs = [i \in 0..(RSI_MAX_VIFS - 1) |-> NULL]
  /\ bss = NoBss
  /\ hw_data_qs_blocked = FALSE
  /\ tx_power = 0
  /\ secinfo = [security_enable |-> FALSE, ptk_cipher |-> 0, gtk_cipher |-> 0]
  /\ mutex = "free"
  /\ nullptr = "none"
  /\ call = NoArgs
  /\ ret = 0
  /\ cmds = <<>>
  /\ vif_info = [i \in 0..(RSI_MAX_VIFS - 1) |-> [seq_start |-> 0]]
  /\ cqm_info = [last_cqm_event_rssi |-> 0, rssi_thold |-> 0, rssi_hyst |-> 0]
  /\ edca_params = [q \in EdcaQueues |-> 0]
  /\ upcalls = <<>>
  /\ ba_hist = NoTxStart
  /\ cqm_fed = NoReadings
  /\ pc = [start |-> "idle", rx |-> "idle", seen |-> NULL]
  /\ mux = NoMux
  /\ pre = DevState

\* Those fields get their first value outside this file.  Where no handler
\* that reads them runs they are held at one value.
Init ==
  /\ iface_down = FALSE
  /\ ant_in_use = ANTENNA_SEL_INT
  /\ dfs_region = RSI_REGION_WORLD
  /\ country = <<"0", "0">>
  /\ num_supp_bands = 1
  /\ sband = [c \in Chans5G |-> {}]
  /\ Attached

\* ------------------------------------------------------------ add_interface
\* The station branch is taken only when sc_nvifs is zero; the count and the
\* stored pointer are written before the capability command is sent.  conf is
\* the bss_conf the interface object vif carries.
rsi_mac80211_add_interface(vif, conf, ok) ==
  /\ mutex = "free"
  /\ vif = vifs[0] => conf = bss
  /\ LET taken == VifType(vif) = "STATION" /\ sc_nvifs = 0
     IN /\ sc_nvifs' = IF taken THEN sc_nvifs + 1 ELSE sc_nvifs
        /\ vifs' = IF taken THEN [vifs EXCEPT ![0] = vif] ELSE vifs
        /\ bss' = IF taken THEN conf ELSE bss
        /\ cmds' = IF taken THEN <<FwCmd("VAP_ADD", <<"STA_OPMODE">>, ok)>>
                            ELSE <<>>
        /\ ret' = IF taken THEN FwRet(ok) ELSE -EOPNOTSUPP
  /\ call' = Call("add_interface", [vif |-> vif])
  /\ pre' = DevState
  /\ UNCHANGED linkvars
  /\ upcalls' = <<>>
  /\ UNCHANGED <<vif_info, cqm_info, edca_params, ba_hist, cqm_fed>>
  /\ UNCHANGED <<hw_data_qs_blocked, tx_power, secinfo, mutex, nullptr>>

\* --------------------------------------------------------- remove_interface
\* The count is decremented for every station-type argument, whether or not
\* it is the stored interface.  memcmp(adapter->vifs[0], vif, ...) with
\* vifs[0] == NULL reads through a null pointer: the handler either faults
\* (the mutex stays held) or the comparison yields some result; vifs[0] is
\* NULL afterwards in both cases.
rsi_mac80211_remove_interface(vif, ok, fault) ==
  /\ mutex = "free"
  /\ LET sta == VifType(vif) = "STATION"
     IN /\ sta => sc_nvifs > -MaxUnderflow
        /\ sc_nvifs' = IF sta THEN sc_nvifs - 1 ELSE sc_nvifs
        /\ cmds' = IF sta THEN <<FwCmd("VAP_DELETE", <<"STA_OPMODE">>, ok)>>
                          ELSE <<>>
  /\ IF vifs[0] = NULL
       THEN /\ UNCHANGED <<vifs, bss>>
            /\ nullptr' = IF fault THEN "fault" ELSE "read"
            /\ mutex' = IF fault THEN "held" ELSE "free"
       ELSE /\ IF memcmp_vif(vifs[0], vif) = 0
                 THEN vifs' = [vifs EXCEPT ![0] = NULL] /\ bss' = NoBss
                 ELSE UNCHANGED <<vifs, bss>>
            /\ UNCHANGED <<mutex, nullptr>>
  /\ ret' = 0
  /\ call' = Call("remove_interface",
                  [vif |-> vif,
                   unlocks |-> IF vifs[0] = NULL /\ fault THEN 0 ELSE 1])
  /\ pre' = DevState
  /\ UNCHANGED linkvars
  /\ upcalls' = <<>>
  /\ UNCHANGED <<vif_info, cqm_info, edca_params, cqm_fed>>
  /\ UNCHANGED <<hw_data_qs_blocked, tx_power, secinfo>>

\* ------------------------------------------------ rsi_get_connected_channel
\* The channel of the stored interface's bss_conf, 0 when none is stored.
rsi_get_connected_channel ==
  IF vifs[0] # NULL THEN bss.chan ELSE 0

\* ------------------------------------------------------- rsi_channel_change
\* Mutant of BlockNeeded: the channel comparison is inverted.
BlockNeeded_same_channel(channel, assoc) ==
  assoc /\ ~hw_data_qs_blocked /\ rsi_get_connected_channel = channel

\* Mutant of BlockNeeded: the association test is dropped.
BlockNeeded_no_assoc(channel, assoc) ==
  ~hw_data_qs_blocked /\ rsi_get_connected_channel # channel

\* The first test of rsi_channel_change: block the data queues when
\* associated, not yet blocked, and leaving the connected channel.
BlockNeeded(channel, assoc) ==
  assoc /\ ~hw_data_qs_blocked /\ rsi_get_connected_channel # channel

\* Mutant of UnblockNeeded: the channel comparison is inverted.
UnblockNeeded_other_channel(q, channel, assoc) ==
  IF assoc THEN q /\ rsi_get_connected_channel # channel ELSE q

\* Mutant of UnblockNeeded: the channel comparison is dropped.
UnblockNeeded_any_channel(q, channel, assoc) == q

\* The last test of rsi_channel_change, q being hw_data_qs_blocked at that
\* point: unblock when associated and back on the connected channel, or when
\* not associated and blocked.
UnblockNeeded(q, channel, assoc) ==
  IF assoc THEN q /\ rsi_get_connected_channel = channel ELSE q

\* Mutant of rsi_channel_change: a failed block or unblock command fails the
\* channel change.
rsi_channel_change_block_fatal(channel, assoc, okBlk, okBand, okSet, okUnblk) ==
  LET q0 == hw_data_qs_blocked
      doBlk == BlockNeeded(channel, assoc)
      q1 == IF doBlk /\ okBlk THEN TRUE ELSE q0
      c1 == IF doBlk
              THEN <<[FwCmd("BLOCK_QUEUES", <<TRUE>>, okBlk) EXCEPT !.blk = q0]>>
              ELSE <<>>
      c2 == <<[FwCmd("BAND_CHECK", <<channel>>, okBand) EXCEPT !.blk = q1]>>
      doUnblk == UnblockNeeded(q1, channel, assoc)
      status == IF (doBlk /\ ~okBlk) \/ (doUnblk /\ ~okUnblk) THEN FW_FAIL
                ELSE IF okBand THEN FwRet(okSet) ELSE FW_FAIL
      c3 == IF okBand
              THEN <<[FwCmd("SET_CHANNEL", <<channel>>, okSet) EXCEPT !.blk = q1]>>
              ELSE <<>>
      q2 == IF doUnblk /\ okUnblk THEN FALSE ELSE q1
      c4 == IF doUnblk
              THEN <<[FwCmd("BLOCK_QUEUES", <<FALSE>>, okUnblk) EXCEPT !.blk = q1]>>
              ELSE <<>>
  IN [blocked |-> q2, status |-> status, cmds |-> c1 \o c2 \o c3 \o c4]

\* assoc is bss->assoc as the handler reads it.  The result is the new
\* hw_data_qs_blocked, the status and the commands issued; every command
\* carries the value of hw_data_qs_blocked at the moment it is issued.
\* Block and unblock are best effort: the flag follows only a successful
\* command and the status is that of the band check and the channel-set.
rsi_channel_change(channel, assoc, okBlk, okBand, okSet, okUnblk) ==
  LET q0 == hw_data_qs_blocked
      doBlk == BlockNeeded(channel, assoc)
      q1 == IF doBlk /\ okBlk THEN TRUE ELSE q0
      c1 == IF doBlk
              THEN <<[FwCmd("BLOCK_QUEUES", <<TRUE>>, okBlk) EXCEPT !.blk = q0]>>
              ELSE <<>>
      c2 == <<[FwCmd("BAND_CHECK", <<channel>>, okBand) EXCEPT !.blk = q1]>>
      status == IF okBand THEN FwRet(okSet) ELSE FW_FAIL
      c3 == IF okBand
              THEN <<[FwCmd("SET_CHANNEL", <<channel>>, okSet) EXCEPT !.blk = q1]>>
              ELSE <<>>
      doUnblk == UnblockNeeded(q1, channel, assoc)
      q2 == IF doUnblk /\ okUnblk THEN FALSE ELSE q1
      c4 == IF doUnblk
              THEN <<[FwCmd("BLOCK_QUEUES", <<FALSE>>, okUnblk) EXCEPT !.blk = q1]>>
              ELSE <<>>
  IN [blocked |-> q2, status |-> status, cmds |-> c1 \o c2 \o c3 \o c4]

\* --------------------------------------------------------- rsi_config_power
rsi_config_power(level, ok) ==
  IF sc_nvifs <= 0
    THEN [tx_power |-> tx_power, status |-> -EINVAL, cmds |-> <<>>]
    ELSE IF level = tx_power
      THEN [tx_power |-> tx_power, status |-> 0, cmds |-> <<>>]
      ELSE [tx_power |-> level, status |-> FwRet(ok),
            cmds |-> <<FwCmd("RADIO_PARAMS", <<level>>, ok)>>]

\* ------------------------------------------------------ rsi_mac80211_config
\* changed is a subset of {"CHANNEL", "POWER"}; channel and level are what the
\* stack put in hw->conf before the call.  With no interface stored the
\* channel change reads bss->assoc through a null interface pointer: the
\* handler faults (the mutex stays held) or reads either value rd.
rsi_mac80211_config(changed, channel, level, fault, rd, okBlk, okBand, okSet, okUnblk, okPow) ==
  /\ mutex = "free"
  /\ vifs[0] # NULL => (~fault /\ ("CHANNEL" \in changed => rd = bss.assoc))
  /\ IF "CHANNEL" \in changed /\ fault
       THEN /\ nullptr' = "fault"
            /\ mutex' = "held"
            /\ ret' = 0
            /\ cmds' = <<>>
            /\ call' = Call("config", [changed |-> changed, chan |-> channel,
                                       power |-> level, unlocks |-> 0])
            /\ UNCHANGED <<hw_data_qs_blocked, tx_power>>
       ELSE LET assoc == IF "CHANNEL" \in changed THEN rd ELSE FALSE
                cc == rsi_channel_change(channel, assoc, okBlk, okBand, okSet,
                                         okUnblk)
                cp == rsi_config_power(level, okPow)
                s1 == IF "CHANNEL" \in changed THEN cc.status ELSE -EOPNOTSUPP
            IN /\ hw_data_qs_blocked' =
                    IF "CHANNEL" \in changed THEN cc.blocked
                                             ELSE hw_data_qs_blocked
               /\ tx_power' = IF "POWER" \in changed THEN cp.tx_power
                                                     ELSE tx_power
               /\ ret' = IF "POWER" \in changed THEN cp.status ELSE s1
               /\ cmds' = (IF "CHANNEL" \in changed THEN cc.cmds ELSE <<>>)
                          \o (IF "POWER" \in changed THEN cp.cmds ELSE <<>>)
               /\ call' = Call("config", [changed |-> changed,
                                          chan |-> channel, power |-> level,
                                          assoc |-> assoc,
                                          conn |-> rsi_get_connected_channel])
               /\ nullptr' = IF "CHANNEL" \in changed /\ vifs[0] = NULL
                               THEN "read" ELSE nullptr
               /\ UNCHANGED mutex
  /\ pre' = DevState
  /\ UNCHANGED linkvars
  /\ upcalls' = <<>>
  /\ UNCHANGED <<vif_info, cqm_info, edca_params, ba_hist, cqm_fed>>
  /\ UNCHANGED <<sc_nvifs, vifs, bss, secinfo>>

\* ---------------------------------------------------- rsi_inform_bss_status
\* Reports the association status to the firmware.
rsi_inform_bss_status(assoc, ok) ==
  <<FwCmd("INFORM_BSS_STATUS", <<assoc>>, ok)>>

\* -------------------------------------------- rsi_mac80211_bss_info_changed
\* The stack has written the bss_conf of vif (association flag assoc and
\* operating channel chan) before it calls the handler, which is seen through
\* adapter->vifs[0] when vif is the stored interface.  The handler sends the
\* receive filter and the association status and keeps no cached state for
\* them.  With "CQM" in changed it takes the threshold thold and the
\* hysteresis hyst of the bss_conf it is passed and forgets the last report.
rsi_mac80211_bss_info_changed(vif, changed, assoc, chan, thold, hyst, okFilter, okInform) ==
  /\ mutex = "free"
  /\ IF "CQM" \in changed
       THEN /\ cqm_info' = [last_cqm_event_rssi |-> 0, rssi_thold |-> thold,
                            rssi_hyst |-> hyst]
            /\ cqm_fed' = NoReadings
       ELSE UNCHANGED <<cqm_info, cqm_fed>>
  /\ bss' = IF vif = vifs[0] THEN [assoc |-> assoc, chan |-> chan] ELSE bss
  /\ cmds' = IF "ASSOC" \in changed
               THEN (IF assoc
                       THEN <<FwCmd("RX_FILTER", <<"ASSOC_PEER">>, okFilter)>>
                       ELSE <<>>)
                    \o rsi_inform_bss_status(assoc, okInform)
               ELSE <<>>
  /\ ret' = 0
  /\ call' = Call("bss_info_changed", [vif |-> vif, changed |-> changed,
                                       assoc |-> assoc, chan |-> chan,
                                       thold |-> thold, hyst |-> hyst])
  /\ pre' = DevState
  /\ UNCHANGED linkvars
  /\ upcalls' = <<>>
  /\ UNCHANGED <<vif_info, edca_params, ba_hist>>
  /\ UNCHANGED <<sc_nvifs, vifs, hw_data_qs_blocked, tx_power, secinfo,
                 mutex, nullptr>>

\* ------------------------------------------------------- rsi_hal_key_config
\* Loads the key into the firmware: a WEP key is first loaded as a pairwise
\* key (ok1), then every key is loaded under its own type (ok2).
rsi_hal_key_config(pairwise, cipher, ok1, ok2) ==
  LET key_type == IF pairwise THEN "RSI_PAIRWISE_KEY" ELSE "RSI_GROUP_KEY"
      wep == cipher = WLAN_CIPHER_SUITE_WEP104
             \/ cipher = WLAN_CIPHER_SUITE_WEP40
      first == FwCmd("LOAD_KEY", <<"RSI_PAIRWISE_KEY", cipher>>, ok1)
      second == FwCmd("LOAD_KEY", <<key_type, cipher>>, ok2)
  IN IF wep /\ ~ok1
       THEN [status |-> FwRet(ok1), cmds |-> <<first>>]
       ELSE [status |-> FwRet(ok2),
             cmds |-> (IF wep THEN <<first>> ELSE <<>>) \o <<second>>]

\* ----------------------------------------------------- rsi_mac80211_set_key
\* Mutant of CacheCipher: the two slots are swapped.
CacheCipher_swapped(sec, pairwise, cipher) ==
  IF pairwise THEN [sec EXCEPT !.gtk_cipher = cipher]
              ELSE [sec EXCEPT !.ptk_cipher = cipher]

\* The cipher of a loaded key is cached in the pairwise or the group slot.
CacheCipher(sec, pairwise, cipher) ==
  IF pairwise THEN [sec EXCEPT !.ptk_cipher = cipher]
              ELSE [sec EXCEPT !.gtk_cipher = cipher]

\* Mutant of SetKeyUnlocks: the return after a failed key push leaves the
\* mutex locked.
SetKeyUnlocks_early_keeps_lock(early) == IF early THEN 0 ELSE 1

\* The mutex_unlock calls on a path of set_key: the one before the return
\* that follows a failed rsi_hal_key_config under SET_KEY, else the one at
\* the end of the handler.
SetKeyUnlocks(early) == IF early THEN 1 ELSE 1

\* cmd is "SET_KEY", "DISABLE_KEY" or any other value; pairwise and cipher
\* are the flag and the cipher of the key the stack passes.  DISABLE_KEY
\* zeroes that key record (not secinfo) and loads the zeroed key.
rsi_mac80211_set_key(cmd, pairwise, cipher, ok1, ok2) ==
  /\ mutex = "free"
  /\ LET set == rsi_hal_key_config(pairwise, cipher, ok1, ok2)
         dis == rsi_hal_key_config(FALSE, 0, ok1, ok2)
         enabled == [secinfo EXCEPT !.security_enable = TRUE]
     IN CASE cmd = "SET_KEY" ->
               /\ secinfo' = IF set.status # 0 THEN enabled
                             ELSE CacheCipher(enabled, pairwise, cipher)
               /\ ret' = set.status
               /\ cmds' = set.cmds
          [] cmd = "DISABLE_KEY" ->
               /\ secinfo' = [secinfo EXCEPT !.security_enable = FALSE]
               /\ ret' = dis.status
               /\ cmds' = dis.cmds
          [] OTHER ->
               /\ secinfo' = secinfo
               /\ ret' = -EOPNOTSUPP
               /\ cmds' = <<>>
  /\ LET n == SetKeyUnlocks(cmd = "SET_KEY" /\ ret' # 0)
     IN /\ mutex' = MutexAfter(n)
        /\ call' = Call("set_key", [cmd |-> cmd, pairwise |-> pairwise,
                                    cipher |-> cipher, unlocks |-> n])
  /\ pre' = DevState
  /\ UNCHANGED linkvars
  /\ upcalls' = <<>>
  /\ UNCHANGED <<vif_info, cqm_info, edca_params, ba_hist, cqm_fed>>
  /\ UNCHANGED <<sc_nvifs, vifs, bss, hw_data_qs_blocked, tx_power, nullptr>>

\* -------------------------------------------------- rsi_mac80211_sta_remove
\* Resets the per-station state of slot 0 (of it, the model keeps seq_start
\* and the two cached ciphers; security_enable is not written) and sends the
\* receive filter; the result of that command is dropped.
rsi_mac80211_sta_remove(vif, okFilter) ==
  /\ mutex = "free"
  /\ vif_info' = [vif_info EXCEPT ![0].seq_start = 0]
  /\ secinfo' = [secinfo EXCEPT !.ptk_cipher = 0, !.gtk_cipher = 0]
  /\ cmds' = <<FwCmd("RX_FILTER", <<0>>, okFilter)>>
  /\ ret' = 0
  /\ call' = Call("sta_remove", [vif |-> vif])
  /\ pre' = DevState
  /\ UNCHANGED linkvars
  /\ upcalls' = <<>>
  /\ UNCHANGED <<sc_nvifs, vifs, bss, hw_data_qs_blocked, tx_power, mutex,
                 nullptr, cqm_info, edca_params, cqm_fed>>

\* ------------------------------------------------ rsi_mac80211_ampdu_action
\* The loop before the lock: the first slot holding the pointer vif, or
\* RSI_MAX_VIFS when no slot holds it.
FindVifSlot(vif) ==
  IF \E i \in DOMAIN vifs : vifs[i] = vif
    THEN CHOOSE i \in DOMAIN vifs :
           vifs[i] = vif /\ \A j \in DOMAIN vifs : vifs[j] = vif => i <= j
    ELSE RSI_MAX_VIFS

TxStopActions == {"TX_STOP_CONT", "TX_STOP_FLUSH", "TX_STOP_FLUSH_CONT"}
AmpduActions ==
  {"RX_START", "RX_STOP", "TX_START", "TX_OPERATIONAL", "OTHER_ACTION"}
    \cup TxStopActions
BufSizes == {8}

\* Mutant of VifInfoAfter: a TX stop action clears the recorded number.
VifInfoAfter_stop_clears(action, ii, seq_no) ==
  IF ii < RSI_MAX_VIFS /\ action \in TxStopActions \cup {"TX_START"}
    THEN [vif_info EXCEPT ![ii].seq_start =
                            IF action = "TX_START" THEN seq_no ELSE 0]
    ELSE vif_info

\* vif_info after the action: only TX_START writes it, vif_info[ii].seq_start.
\* With ii = RSI_MAX_VIFS the write lands past the end of the array, in
\* memory the model does not hold.
VifInfoAfter(action, ii, seq_no) ==
  IF action = "TX_START" /\ ii < RSI_MAX_VIFS
    THEN [vif_info EXCEPT ![ii].seq_start = seq_no]
    ELSE vif_info

\* Mutant of OperationalSeq: the ssn of the TX_OPERATIONAL call is sent.
OperationalSeq_call_ssn(ii, seq_no, oob) == seq_no

\* The sequence number TX_OPERATIONAL sends: vif_info[ii].seq_start, which
\* with ii = RSI_MAX_VIFS is whatever lies past the end of the array (oob).
OperationalSeq(ii, seq_no, oob) ==
  IF ii < RSI_MAX_VIFS THEN vif_info[ii].seq_start ELSE oob

\* Mutant of StopNotified: the stack is told whatever the command returned.
StopNotified_always(status) == TRUE

\* if (!status) ieee80211_stop_tx_ba_cb_irqsafe(...)
StopNotified(status) == status = 0

\* ba_hist after ampdu_action(vif, action, tid, ssn).
TxStarted(vif, action, tid, ssn) ==
  CASE FindVifSlot(vif) = RSI_MAX_VIFS -> ba_hist
    [] action = "TX_START" ->
         [last |-> [tid |-> tid, ssn |-> ssn], before |-> ba_hist.last,
          stopped |-> {}, reset |-> FALSE, removed |-> FALSE]
    [] action \in TxStopActions ->
         [ba_hist EXCEPT !.stopped = @ \cup {tid}]
    [] OTHER -> ba_hist

\* The mutex_unlock calls on a path of ampdu_action: every case of the
\* switch breaks to the one at the end of the handler.
AmpduUnlocks(action) == 1

\* action, tid, ssn and buf_size are the fields of params; ok is the outcome
\* of the aggregation command, if one is sent.
rsi_mac80211_ampdu_action(vif, action, tid, ssn, buf_size, oob, ok) ==
  /\ mutex = "free"
  /\ LET ii == FindVifSlot(vif)
         seq_no == ssn
         agg(seq, type) ==
           <<FwCmd("AGGREGATION_PARAMS", <<tid, seq, buf_size, type>>, ok)>>
     IN /\ vif_info' = VifInfoAfter(action, ii, seq_no)
        /\ CASE action = "RX_START" ->
                  /\ cmds' = agg(seq_no, "STA_RX_ADDBA_DONE")
                  /\ ret' = FwRet(ok)
                  /\ upcalls' = <<>>
             [] action = "RX_STOP" ->
                  /\ cmds' = agg(0, "STA_RX_DELBA")
                  /\ ret' = FwRet(ok)
                  /\ upcalls' = <<>>
             [] action = "TX_START" ->
                  /\ cmds' = <<>>
                  /\ ret' = 0
                  /\ upcalls' =
                       <<Upcall("ieee80211_start_tx_ba_cb_irqsafe", vif, tid)>>
             [] action \in TxStopActions ->
                  /\ cmds' = agg(seq_no, "STA_TX_DELBA")
                  /\ ret' = FwRet(ok)
                  /\ upcalls' =
                       IF StopNotified(FwRet(ok))
                         THEN <<Upcall("ieee80211_stop_tx_ba_cb_irqsafe",
                                       vif, tid)>>
                         ELSE <<>>
             [] action = "TX_OPERATIONAL" ->
                  /\ cmds' = agg(OperationalSeq(ii, seq_no, oob),
                                 "STA_TX_ADDBA_DONE")
                  /\ ret' = FwRet(ok)
                  /\ upcalls' = <<>>
             [] OTHER ->
                  /\ cmds' = <<>>
                  /\ ret' = -EOPNOTSUPP
                  /\ upcalls' = <<>>
        /\ call' = Call("ampdu_action",
                        [vif |-> vif, action |-> action, tid |-> tid,
                         ssn |-> ssn, buf_size |-> buf_size, ii |-> ii,
                         unlocks |-> AmpduUnlocks(action)])
  /\ mutex' = MutexAfter(AmpduUnlocks(action))
  /\ pre' = DevState
  /\ UNCHANGED linkvars
  /\ UNCHANGED <<sc_nvifs, vifs, bss, hw_data_qs_blocked, tx_power, secinfo,
                 nullptr, cqm_info, edca_params, cqm_fed>>

\* ---------------------------------------------------------- rsi_perform_cqm
\* A u32 value is held as the 32-bit two's-complement integer with the same
\* bits, so that a - b and a + b are the u32 difference and sum as long as
\* the integer result fits 32 bits (it does for the values bounded here);
\* U32Less is the unsigned comparison of two values so held.
U32Less(a, b) == IF (a < 0) = (b < 0) THEN a < b ELSE b < 0

\* Mutant of CqmEvent: the last report and the hysteresis are ignored.
CqmEvent_threshold_only(rssi, last_event, thold, hyst) ==
  IF rssi < thold THEN "LOW" ELSE IF rssi > thold THEN "HIGH" ELSE "NONE"

\* Mutant of CqmEvent: the hysteresis is ignored once a report was made.
CqmEvent_no_hyst(rssi, last_event, thold, hyst) ==
  IF rssi < thold /\ (last_event = 0 \/ U32Less(rssi, last_event))
    THEN "LOW"
  ELSE IF rssi > thold /\ (last_event = 0 \/ U32Less(last_event, rssi))
    THEN "HIGH"
  ELSE "NONE"

\* The test of rsi_perform_cqm on s8 rssi, s8 last_event, int thold and
\* u32 hyst.  rssi < thold compares two ints.  In last_event - hyst and
\* last_event + hyst the s8 is converted to u32, the result is a u32, and
\* rssi is converted to u32 to be compared with it.
CqmEvent(rssi, last_event, thold, hyst) ==
  IF rssi < thold /\ (last_event = 0 \/ U32Less(rssi, last_event - hyst))
    THEN "LOW"
  ELSE IF rssi > thold /\ (last_event = 0 \/ U32Less(last_event + hyst, rssi))
    THEN "HIGH"
  ELSE "NONE"

\* cqm_fed after rssi was evaluated with the outcome event.
ReadingFed(rssi, event) ==
  LET n == Len(cqm_fed.trace) + 1
      on == cqm_fed.on /\ n <= Len(Readings) /\ Readings[n] = rssi
  IN [reported |-> IF event = "NONE" THEN cqm_fed.reported ELSE rssi,
      kind |-> IF event = "NONE" THEN cqm_fed.kind ELSE event,
      prior |-> cqm_fed.reported,
      prior_kind |-> cqm_fed.kind,
      on |-> on,
      trace |-> IF on THEN Append(cqm_fed.trace, event) ELSE <<>>]

\* Called from the receive path, without the mutex, for a beacon of the
\* associated peer.  An event is reported to the stack for adapter->vifs[0]
\* and its reading becomes last_cqm_event_rssi.
rsi_perform_cqm(rssi) ==
  LET event == CqmEvent(rssi, cqm_info.last_cqm_event_rssi,
                        cqm_info.rssi_thold, cqm_info.rssi_hyst)
  IN /\ cqm_info' = IF event = "NONE" THEN cqm_info
                     ELSE [cqm_info EXCEPT !.last_cqm_event_rssi = rssi]
     /\ upcalls' = IF event = "NONE" THEN <<>>
                    ELSE <<Upcall("ieee80211_cqm_rssi_notify", vifs[0],
                                  <<event, rssi>>)>>
     /\ cqm_fed' = ReadingFed(rssi, event)
     /\ cmds' = <<>>
     /\ ret' = 0
     /\ call' = Call("perform_cqm", [rssi |-> rssi, locked |-> FALSE,
                                          unlocks |-> 0])
     /\ pre' = DevState
     /\ UNCHANGED linkvars
     /\ UNCHANGED <<sc_nvifs, vifs, bss, hw_data_qs_blocked, tx_power,
                    secinfo, mutex, nullptr, vif_info, edca_params, ba_hist>>

\* ----------------------------------------------------- rsi_mac80211_conf_tx
\* Mutant of QueueIgnored: no queue index is turned away.
QueueIgnored_never(queue) == FALSE

\* The test before the lock is taken.
QueueIgnored(queue) == queue >= IEEE80211_NUM_ACS

\* Mutant of EdcaIdx: background has no case of its own and takes the
\* default.
EdcaIdx_bk_defaults(queue) ==
  CASE queue = IEEE80211_AC_VO -> "VO_Q"
    [] queue = IEEE80211_AC_VI -> "VI_Q"
    [] queue = IEEE80211_AC_BE -> "BE_Q"
    [] OTHER -> "BE_Q"

\* The slot of edca_params the access category queue is stored in.
EdcaIdx(queue) ==
  CASE queue = IEEE80211_AC_VO -> "VO_Q"
    [] queue = IEEE80211_AC_VI -> "VI_Q"
    [] queue = IEEE80211_AC_BE -> "BE_Q"
    [] queue = IEEE80211_AC_BK -> "BK_Q"
    [] OTHER -> "BE_Q"

\* params stands for the bytes of *params, which are copied as they are.
\* The handler returns before it takes the mutex when the queue is turned
\* away; locked tells whether it took it.
rsi_mac80211_conf_tx(vif, queue, params) ==
  /\ IF QueueIgnored(queue)
       THEN UNCHANGED edca_params
       ELSE /\ mutex = "free"
            /\ edca_params' = [edca_params EXCEPT ![EdcaIdx(queue)] = params]
  /\ ret' = 0
  /\ cmds' = <<>>
  /\ upcalls' = <<>>
  /\ call' = Call("conf_tx", [vif |-> vif, queue |-> queue,
                              params |-> params,
                              locked |-> ~QueueIgnored(queue),
                              unlocks |-> IF QueueIgnored(queue) THEN 0
                                                                 ELSE 1])
  /\ pre' = DevState
  /\ UNCHANGED linkvars
  /\ UNCHANGED <<sc_nvifs, vifs, bss, hw_data_qs_blocked, tx_power, secinfo,
                 mutex, nullptr, vif_info, cqm_info, ba_hist, cqm_fed>>

\* The driver state the handlers below leave alone, and the histories that
\* only other handlers feed.
corevars ==
  <<sc_nvifs, vifs, bss, hw_data_qs_blocked, tx_power, secinfo, vif_info,
    cqm_info, edca_params>>
histvars == <<ba_hist, cqm_fed>>

\* ------------------------------------------------------- rsi_mac80211_start
\* start clears iface_down under the mutex and unlocks; the receive-filter
\* command is sent after the unlock, in a step of its own.  The stack calls
\* start and stop one after the other, never one inside the other.
rsi_mac80211_start ==
  /\ mutex = "free"
  /\ pc.start = "idle"
  /\ iface_down' = FALSE
  /\ pc' = [pc EXCEPT !.start = "unlocked"]
  /\ cmds' = <<>>
  /\ call' = Call("start", [locked |-> TRUE])
  /\ pre' = DevState
  /\ upcalls' = <<>>
  /\ UNCHANGED <<mux, ant_in_use, dfs_region, country, num_supp_bands, sband>>
  /\ UNCHANGED <<corevars, histvars, mutex, nullptr, ret>>

\* rsi_send_rx_filter_frame(common, 0) and return 0: the mutex is not held.
rsi_mac80211_start_rx_filter(ok) ==
  /\ pc.start = "unlocked"
  /\ pc' = [pc EXCEPT !.start = "idle"]
  /\ cmds' = <<FwCmd("RX_FILTER", <<0>>, ok)>>
  /\ ret' = 0
  /\ call' = Call("start", [locked |-> FALSE, unlocks |-> 0])
  /\ pre' = DevState
  /\ upcalls' = <<>>
  /\ UNCHANGED <<mux, iface_down, ant_in_use, dfs_region, country,
                 num_supp_bands, sband>>
  /\ UNCHANGED <<corevars, histvars, mutex, nullptr>>

\* -------------------------------------------------------- rsi_mac80211_stop
\* stop sets iface_down and sends the block-all receive filter (0xffff), both
\* under the mutex; the outcome of the command is not looked at.
rsi_mac80211_stop(ok) ==
  /\ mutex = "free"
  /\ pc.start = "idle"
  /\ iface_down' = TRUE
  /\ cmds' = <<FwCmd("RX_FILTER", <<65535>>, ok)>>
  /\ ret' = 0
  /\ call' = Call("stop", [locked |-> TRUE])
  /\ pre' = DevState
  /\ upcalls' = <<>>
  /\ UNCHANGED <<mux, ant_in_use, dfs_region, country, num_supp_bands, sband,
                 pc>>
  /\ UNCHANGED <<corevars, histvars, mutex, nullptr>>

\* --------------------------------------------------- rsi_indicate_pkt_to_os
\* if ((common->iface_down) || (!adapter->sc_nvifs))
RxDiscard(down, nvifs) == down \/ nvifs = 0

\* The receive path runs without the mutex.  Its first step reads iface_down
\* and sc_nvifs and frees the frame when the test says so; pc.seen keeps
\* adapter->vifs[0] as it was at that moment (the code does not read it).
rsi_indicate_pkt_to_os ==
  /\ pc.rx = "idle"
  /\ pc' = [pc EXCEPT !.rx = IF RxDiscard(iface_down, sc_nvifs)
                                THEN "idle" ELSE "tested",
                       !.seen = vifs[0]]
  /\ cmds' = <<>>
  /\ ret' = 0
  /\ call' = Call("indicate_pkt", [locked |-> FALSE, unlocks |-> 0])
  /\ pre' = DevState
  /\ upcalls' = <<>>
  /\ UNCHANGED <<mux, iface_down, ant_in_use, dfs_region, country,
                 num_supp_bands, sband>>
  /\ UNCHANGED <<corevars, histvars, mutex, nullptr>>

\* Its second step, for a frame that is not a beacon of the associated peer:
\* rsi_fill_rx_status reads adapter->vifs[0]->bss_conf.assoc and the frame
\* goes to ieee80211_rx_irqsafe.  With no interface stored the read goes
\* through a null pointer: the path faults, or reads some value and goes on.
rsi_indicate_pkt_to_os_deliver(fault) ==
  /\ pc.rx = "tested"
  /\ vifs[0] # NULL => ~fault
  /\ pc' = [pc EXCEPT !.rx = IF fault THEN "fault" ELSE "idle"]
  /\ nullptr' = IF fault THEN "fault"
                ELSE IF vifs[0] = NULL THEN "read" ELSE nullptr
  /\ upcalls' = IF fault THEN <<>>
                ELSE <<Upcall("ieee80211_rx_irqsafe", vifs[0], <<>>)>>
  /\ cmds' = <<>>
  /\ ret' = 0
  /\ call' = Call("indicate_pkt", [locked |-> FALSE, unlocks |-> 0])
  /\ pre' = DevState
  /\ UNCHANGED <<mux, iface_down, ant_in_use, dfs_region, country,
                 num_supp_bands, sband>>
  /\ UNCHANGED <<corevars, histvars, mutex>>

\* ------------------------------------------------- rsi_mac80211_conf_filter
\* a & b on non-negative words.
RECURSIVE BitAnd(_, _)
BitAnd(a, b) ==
  IF a = 0 \/ b = 0 THEN 0
  ELSE (a % 2) * (b % 2) + 2 * BitAnd(a \div 2, b \div 2)

\* Mutant of FilteredFlags: the word is left as requested.
FilteredFlags_unmasked(total_flags) == total_flags

\* *total_flags &= RSI_SUPP_FILTERS
FilteredFlags(total_flags) == BitAnd(total_flags, RSI_SUPP_FILTERS)

\* The handler takes no lock and does nothing else; ret is the word the
\* handler leaves in *total_flags.
rsi_mac80211_conf_filter(total_flags) ==
  /\ ret' = FilteredFlags(total_flags)
  /\ cmds' = <<>>
  /\ call' = Call("conf_filter", [flags |-> total_flags, locked |-> FALSE,
                                  unlocks |-> 0])
  /\ pre' = DevState
  /\ upcalls' = <<>>
  /\ UNCHANGED linkvars
  /\ UNCHANGED <<corevars, histvars, mutex, nullptr>>

\* ------------------------------------------------- rsi_mac80211_set_antenna
\* Mutant of AntennaInvalid: only the tx selector is tested.
AntennaInvalid_tx_only(tx_ant, rx_ant) == U32Less(1, tx_ant)

\* if (tx_ant > 1 || rx_ant > 1), on u32 values.
AntennaInvalid(tx_ant, rx_ant) == U32Less(1, tx_ant) \/ U32Less(1, rx_ant)

\* antenna = tx_ant ? ANTENNA_SEL_UFL : ANTENNA_SEL_INT
AntennaOf(tx_ant) == IF tx_ant # 0 THEN ANTENNA_SEL_UFL ELSE ANTENNA_SEL_INT

\* Mutant of AntennaAfter: ant_in_use is written before the command's result
\* is looked at.
AntennaAfter_eager(cur, antenna, failed) == antenna

\* ant_in_use at the return of set_antenna: goto fail_set_antenna skips the
\* assignment common->ant_in_use = antenna.
AntennaAfter(cur, antenna, failed) == IF failed THEN cur ELSE antenna

\* The mutex_unlock calls on a path of set_antenna past the lock: the one
\* under fail_set_antenna, else the one before return 0.
SetAntennaUnlocks(failed) == IF failed THEN 1 ELSE 1

\* An invalid selector returns -EINVAL before the lock is taken.  Otherwise
\* rsi_set_antenna is sent when the antenna differs from the one in use, and
\* ant_in_use is written unless that command failed.
rsi_mac80211_set_antenna(tx_ant, rx_ant, ok) ==
  /\ IF AntennaInvalid(tx_ant, rx_ant)
       THEN /\ ret' = -EINVAL
            /\ cmds' = <<>>
            /\ call' = Call("set_antenna",
                            [tx_ant |-> tx_ant, rx_ant |-> rx_ant,
                             locked |-> FALSE, unlocks |-> 0])
            /\ UNCHANGED <<ant_in_use, mutex>>
       ELSE LET antenna == AntennaOf(tx_ant)
                sent == ant_in_use # antenna
            IN /\ mutex = "free"
               /\ cmds' = IF sent THEN <<FwCmd("SET_ANTENNA", <<antenna>>, ok)>>
                          ELSE <<>>
               /\ ret' = IF sent /\ ~ok THEN -EINVAL ELSE 0
               /\ ant_in_use' = AntennaAfter(ant_in_use, antenna, sent /\ ~ok)
               /\ mutex' = MutexAfter(SetAntennaUnlocks(sent /\ ~ok))
               /\ call' = Call("set_antenna",
                               [tx_ant |-> tx_ant, rx_ant |-> rx_ant,
                                unlocks |-> SetAntennaUnlocks(sent /\ ~ok)])
  /\ pre' = DevState
  /\ upcalls' = <<>>
  /\ UNCHANGED <<mux, iface_down, dfs_region, country, num_supp_bands, sband,
                 pc>>
  /\ UNCHANGED <<corevars, histvars, nullptr>>

\* *tx_ant as get_antenna writes it.
TxAntOf(antenna) == IF antenna = ANTENNA_SEL_UFL THEN 1 ELSE 0

\* get_antenna reports the antenna in use through *tx_ant and 0 through
\* *rx_ant, under the mutex; call.tx_ant and call.rx_ant hold the two values
\* written.
rsi_mac80211_get_antenna ==
  /\ mutex = "free"
  /\ call' = Call("get_antenna",
                  [tx_ant |-> TxAntOf(ant_in_use), rx_ant |-> 0])
  /\ ret' = 0
  /\ cmds' = <<>>
  /\ pre' = DevState
  /\ upcalls' = <<>>
  /\ UNCHANGED linkvars
  /\ UNCHANGED <<corevars, histvars, mutex, nullptr>>

\* ------------------------------------------------------ rsi_map_region_code
\* Mutant of rsi_map_region_code: the default is the FCC code.
rsi_map_region_code_default_fcc(region_code) ==
  CASE region_code = NL80211_DFS_FCC -> RSI_REGION_FCC
    [] region_code = NL80211_DFS_ETSI -> RSI_REGION_ETSI
    [] region_code = NL80211_DFS_JP -> RSI_REGION_TELEC
    [] region_code = NL80211_DFS_UNSET -> RSI_REGION_WORLD
    [] OTHER -> RSI_REGION_FCC

rsi_map_region_code(region_code) ==
  CASE region_code = NL80211_DFS_FCC -> RSI_REGION_FCC
    [] region_code = NL80211_DFS_ETSI -> RSI_REGION_ETSI
    [] region_code = NL80211_DFS_JP -> RSI_REGION_TELEC
    [] region_code = NL80211_DFS_UNSET -> RSI_REGION_WORLD
    [] OTHER -> RSI_REGION_WORLD

\* ----------------------------------------------------------- rsi_reg_notify
\* The flags of one 5 GHz channel after the loop: a channel that is not
\* disabled and bears radar gets NO_IR.
RadarNoIr(flags) ==
  IF "IEEE80211_CHAN_DISABLED" \in flags THEN flags
  ELSE IF "IEEE80211_CHAN_RADAR" \in flags
    THEN flags \cup {"IEEE80211_CHAN_NO_IR"}
  ELSE flags

\* region and alpha2 are request->dfs_region and request->alpha2.
rsi_reg_notify(region, alpha2) ==
  /\ mutex = "free"
  /\ sband' = IF num_supp_bands > 1
                THEN [c \in DOMAIN sband |-> RadarNoIr(sband[c])]
                ELSE sband
  /\ dfs_region' = rsi_map_region_code(region)
  /\ country' = <<alpha2[1], alpha2[2]>>
  /\ cmds' = <<>>
  /\ ret' = 0
  /\ call' = Call("reg_notify", [region |-> region, alpha2 |-> alpha2])
  /\ pre' = DevState
  /\ upcalls' = <<>>
  /\ UNCHANGED <<mux, iface_down, ant_in_use, num_supp_bands, pc>>
  /\ UNCHANGED <<corevars, histvars, mutex, nullptr>>

\* --------------------------------------------- mdio_mux_read, mdio_mux_write
\* Everything but the multiplexer.
rsivars ==
  <<sc_nvifs, vifs, bss, hw_data_qs_blocked, tx_power, secinfo, mutex,
    nullptr, vif_info, cqm_info, edca_params, iface_down, ant_in_use,
    dfs_region, country, num_supp_bands, sband, pc, upcalls, ba_hist,
    cqm_fed, call, ret, cmds, pre>>

\* Mutant of MdioLockFree: mutex_lock_nested does not wait.
MdioLockFree_no_wait(holder) == TRUE

\* mutex_lock_nested(&pb->mii_bus->mdio_lock, ...) goes on when no caller
\* holds the lock.
MdioLockFree(holder) == holder = 0

\* Caller t enters mdio_mux_read or mdio_mux_write (op) on the child bus with
\* the bus number child.
mdio_mux_enter(t, op, child) ==
  /\ mux.proc[t].pc = "idle"
  /\ mux' = [mux EXCEPT
               !.proc[t] =
                 [MuxIdle EXCEPT !.pc = "wait", !.op = op, !.child = child],
               !.last = NoMuxEvent]
  /\ UNCHANGED rsivars

\* mutex_lock_nested returns to caller t.
mdio_mux_lock(t) ==
  /\ mux.proc[t].pc = "wait"
  /\ MdioLockFree(mux.mdio_lock)
  /\ mux' = [mux EXCEPT !.mdio_lock = t, !.proc[t].pc = "locked",
                        !.last = NoMuxEvent]
  /\ UNCHANGED rsivars

\* r = pb->switch_fn(pb->current_child, cb->bus_number, pb->switch_data) with
\* the result r; if (r) goto out; pb->current_child = cb->bus_number.  A
\* successful switch puts the mux on the child; after a failed one its
\* position is not known.
mdio_mux_switch(t, r) ==
  /\ mux.proc[t].pc = "locked"
  /\ mux' = [mux EXCEPT
               !.proc[t].sw = r,
               !.proc[t].r = r,
               !.proc[t].cur0 = mux.current_child,
               !.proc[t].pc = IF r # 0 THEN "out" ELSE "switched",
               !.last = NoMuxEvent,
               !.sel = IF r # 0 THEN NoChild ELSE mux.proc[t].child,
               !.current_child = IF r # 0 THEN mux.current_child
                                          ELSE mux.proc[t].child]
  /\ UNCHANGED rsivars

\* r = pb->mii_bus->read(...) or pb->mii_bus->write(...) with the result r:
\* the transfer on the parent bus.
mdio_mux_transfer(t, r) ==
  /\ mux.proc[t].pc = "switched"
  /\ mux' = [mux EXCEPT
               !.proc[t].r = r,
               !.proc[t].xfers = @ + 1,
               !.proc[t].pc = "out",
               !.last = [NoMuxEvent EXCEPT
                           !.kind = "transfer", !.t = t,
                           !.op = mux.proc[t].op,
                           !.child = mux.proc[t].child,
                           !.sel = mux.sel,
                           !.cur = mux.current_child,
                           !.cur0 = mux.proc[t].cur0,
                           !.holder = mux.mdio_lock,
                           !.sw = mux.proc[t].sw,
                           !.xfers = mux.proc[t].xfers + 1,
                           !.r = r]]
  /\ UNCHANGED rsivars

\* out: mutex_unlock(&pb->mii_bus->mdio_lock); return r.
mdio_mux_unlock(t) ==
  /\ mux.proc[t].pc = "out"
  /\ mux' = [mux EXCEPT
               !.mdio_lock = 0,
               !.proc[t] = MuxIdle,
               !.last = [NoMuxEvent EXCEPT
                           !.kind = "return", !.t = t,
                           !.op = mux.proc[t].op,
                           !.child = mux.proc[t].child,
                           !.sel = mux.sel,
                           !.cur = mux.current_child,
                           !.cur0 = mux.proc[t].cur0,
                           !.holder = mux.mdio_lock,
                           !.sw = mux.proc[t].sw,
                           !.xfers = mux.proc[t].xfers,
                           !.r = mux.proc[t].r]]
  /\ UNCHANGED rsivars

\* ------------------------------------------------------------------ inputs
\* An input that the call does not use is fixed, so that every successor is
\* a different behaviour of the code.
\* A call that changes both the channel and the power takes each of them
\* from two values: the current one (the connected channel, tx_power) and
\* one other, every other value taking the same path.
TwoOf(S, x) ==
  LET a == IF x \in S THEN x ELSE CHOOSE y \in S : TRUE
  IN {a, CHOOSE y \in S : y # a}
ChanArgs(changed) ==
  IF "CHANNEL" \notin changed THEN {0}
  ELSE IF "POWER" \in changed THEN TwoOf(Channels, rsi_get_connected_channel)
  ELSE Channels
PowerArgs(changed) ==
  IF "POWER" \notin changed THEN {0}
  ELSE IF "CHANNEL" \in changed THEN TwoOf(PowerLevels, tx_power)
  ELSE PowerLevels
NullRead(changed) ==
  IF "CHANNEL" \in changed /\ vifs[0] = NULL THEN BOOLEAN ELSE {FALSE}
AssocRead == IF vifs[0] # NULL THEN {bss.assoc} ELSE BOOLEAN
Outcome(used) == IF used THEN BOOLEAN ELSE {TRUE}

\* The bss_conf of an interface object that is not the stored one.
ConfArgs(v, used) ==
  IF v = vifs[0] THEN {bss} ELSE IF used THEN BssConfs ELSE {NoBss}

\* The interface objects a handler is called for: the stored station and one
\* station that is not stored, or two stations when none is stored (a handler
\* tells interface objects apart only by comparing them with vifs[0], so
\* every further station takes the path of one of these), and the access
\* point.
StaArgs == TwoOf(StaVifs, vifs[0])
VifArgs == StaArgs \cup {ApVif}

AddInterface ==
  \E v \in VifArgs :
    \E conf \in ConfArgs(v, VifType(v) = "STATION" /\ sc_nvifs = 0),
       ok \in Outcome(VifType(v) = "STATION" /\ sc_nvifs = 0) :
      rsi_mac80211_add_interface(v, conf, ok)

RemoveInterface ==
  \E v \in VifArgs :
    \E ok \in Outcome(VifType(v) = "STATION"), fault \in NullRead({"CHANNEL"}) :
      rsi_mac80211_remove_interface(v, ok, fault) /\ UNCHANGED ba_hist

Config ==
  \E changed \in SUBSET {"CHANNEL", "POWER"} :
    \E c \in ChanArgs(changed), l \in PowerArgs(changed),
       fault \in NullRead(changed) :
      \E rd \in IF "CHANNEL" \in changed /\ ~fault THEN AssocRead ELSE {FALSE} :
        \E okBlk \in Outcome("CHANNEL" \in changed /\ ~fault
                             /\ BlockNeeded(c, rd)),
           okBand \in Outcome("CHANNEL" \in changed /\ ~fault),
           okPow \in Outcome("POWER" \in changed /\ ~fault /\ sc_nvifs > 0
                             /\ l # tx_power) :
          \E okSet \in Outcome("CHANNEL" \in changed /\ ~fault /\ okBand),
             okUnblk \in Outcome("CHANNEL" \in changed /\ ~fault
                                 /\ UnblockNeeded(hw_data_qs_blocked
                                                  \/ (BlockNeeded(c, rd) /\ okBlk),
                                                  c, rd)) :
            rsi_mac80211_config(changed, c, l, fault, rd, okBlk, okBand,
                                okSet, okUnblk, okPow)

BssInfoChanged ==
  \E v \in StaArgs, changed \in SUBSET {"ASSOC"} :
    \E a \in IF "ASSOC" \in changed THEN BOOLEAN
              ELSE IF v = vifs[0] THEN {bss.assoc} ELSE {FALSE},
       c \in IF v = vifs[0] THEN Channels ELSE {1} :
      \E okFilter \in Outcome("ASSOC" \in changed /\ a),
         okInform \in Outcome("ASSOC" \in changed) :
        rsi_mac80211_bss_info_changed(v, changed, a, c, 0, 0, okFilter,
                                      okInform)

SetKey ==
  \E cmd \in {"SET_KEY", "DISABLE_KEY", "OTHER_CMD"}, pw \in BOOLEAN,
     c \in Ciphers :
    \E ok1 \in Outcome(cmd = "SET_KEY" /\ c # CIPHER_NOT_WEP) :
      \E ok2 \in Outcome(cmd = "DISABLE_KEY" \/ (cmd = "SET_KEY" /\ ok1)) :
        rsi_mac80211_set_key(cmd, pw, c, ok1, ok2)

\* sta_remove does not read its vif argument.
StaRemove ==
  \E ok \in BOOLEAN :
    rsi_mac80211_sta_remove(AnyVif, ok) /\ UNCHANGED ba_hist

\* add_interface for a station whose bss_conf is still empty.
AddStation ==
  \E v \in StaArgs :
    \E ok \in Outcome(sc_nvifs = 0) :
      rsi_mac80211_add_interface(v, IF v = vifs[0] THEN bss ELSE NoBss, ok)

\* The interfaces ampdu_action is called for: the stored one and one that
\* is not stored (every interface that is not stored takes the same path).
AmpduVifs ==
  IF vifs[0] = NULL THEN {1}
  ELSE {vifs[0], CHOOSE v \in StaVifs : v # vifs[0]}

\* What lies past the end of vif_info, when TX_OPERATIONAL reads it.
OobArgs(v, action) ==
  IF action = "TX_OPERATIONAL" /\ FindVifSlot(v) = RSI_MAX_VIFS
    THEN Ssns ELSE {0}

AmpduAction ==
  \E v \in AmpduVifs, action \in AmpduActions, tid \in Tids, b \in BufSizes :
    \E ssn \in Ssns, oob \in OobArgs(v, action),
       ok \in Outcome(action \notin {"TX_START", "OTHER_ACTION"}) :
      /\ rsi_mac80211_ampdu_action(v, action, tid, ssn, b, oob, ok)
      /\ UNCHANGED ba_hist

\* The TX side of ampdu_action for the stored interface and sta_remove,
\* with their history kept.
TxSession ==
  \E tid \in Tids, b \in BufSizes,
     action \in {"TX_START", "TX_STOP_CONT", "TX_OPERATIONAL"} :
    \E ssn \in IF action = "TX_START" THEN Ssns ELSE {0},
       ok \in Outcome(action # "TX_START") :
      /\ vifs[0] # NULL
      /\ rsi_mac80211_ampdu_action(vifs[0], action, tid, ssn, b, 0, ok)
      /\ ba_hist' = TxStarted(vifs[0], action, tid, ssn)

StaRemoveSession ==
  \E ok \in BOOLEAN :
    /\ rsi_mac80211_sta_remove(AnyVif, ok)
    /\ ba_hist' = [ba_hist EXCEPT !.reset = TRUE]

\* bss_info_changed for the stored interface, with the association and the
\* monitor parameters.
BssInfoCqm ==
  \E changed \in (SUBSET {"ASSOC", "CQM"}) \ {{}} :
    \E a \in IF "ASSOC" \in changed THEN BOOLEAN ELSE {bss.assoc},
       th \in IF "CQM" \in changed THEN Tholds ELSE {0},
       hy \in IF "CQM" \in changed THEN Hysts ELSE {0} :
      \E okFilter \in Outcome("ASSOC" \in changed /\ a),
         okInform \in Outcome("ASSOC" \in changed) :
        /\ vifs[0] # NULL
        /\ rsi_mac80211_bss_info_changed(vifs[0], changed, a, bss.chan, th,
                                         hy, okFilter, okInform)

\* rsi_fill_rx_status calls the monitor for the beacons of the associated
\* peer only.
CqmBeacon ==
  \E rssi \in Signals :
    /\ vifs[0] # NULL
    /\ bss.assoc
    /\ rsi_perform_cqm(rssi)

\* conf_tx does not read its vif argument.
ConfTx ==
  \E queue \in Queues, params \in EdcaParams :
    rsi_mac80211_conf_tx(AnyVif, queue, params)

Start == rsi_mac80211_start

StartRxFilter == \E ok \in BOOLEAN : rsi_mac80211_start_rx_filter(ok)

Stop == \E ok \in BOOLEAN : rsi_mac80211_stop(ok)

IndicatePkt == rsi_indicate_pkt_to_os

DeliverPkt ==
  \E fault \in IF vifs[0] = NULL THEN BOOLEAN ELSE {FALSE} :
    rsi_indicate_pkt_to_os_deliver(fault)

ConfFilter == \E f \in FilterFlags : rsi_mac80211_conf_filter(f)

SetAntenna ==
  \E tx \in AntArgs, rx \in AntArgs :
    \E ok \in Outcome(~AntennaInvalid(tx, rx) /\ ant_in_use # AntennaOf(tx)) :
      rsi_mac80211_set_antenna(tx, rx, ok)

GetAntenna == rsi_mac80211_get_antenna

RegNotify ==
  \E r \in DfsRegions, a \in Alpha2s : rsi_reg_notify(r, a)

\* set_key(SET_KEY) alone.
LoadKey ==
  \E pw \in BOOLEAN, c \in Ciphers :
    \E ok1 \in Outcome(c # CIPHER_NOT_WEP) :
      \E ok2 \in Outcome(ok1) :
        rsi_mac80211_set_key("SET_KEY", pw, c, ok1, ok2)

\* TX_START and TX_OPERATIONAL for the stored interface, on one tid (the
\* handler keeps seq_start by interface slot, whatever the tid).
TxStartOperational ==
  \E action \in {"TX_START", "TX_OPERATIONAL"}, b \in BufSizes :
    \E ssn \in IF action = "TX_START" THEN Ssns ELSE {0},
       ok \in Outcome(action # "TX_START") :
      /\ vifs[0] # NULL
      /\ rsi_mac80211_ampdu_action(vifs[0], action, 0, ssn, b, 0, ok)
      /\ ba_hist' = TxStarted(vifs[0], action, 0, ssn)

\* remove_interface of the stored interface, with its history kept.
RemoveStored ==
  \E ok \in BOOLEAN :
    /\ vifs[0] # NULL
    /\ rsi_mac80211_remove_interface(vifs[0], ok, FALSE)
    /\ ba_hist' = [ba_hist EXCEPT !.removed = TRUE]

Next ==
  \/ AddInterface
  \/ RemoveInterface
  \/ Config
  \/ BssInfoChanged

Spec == Init /\ [][Next]_vars

\* The handlers that write the key cache, with the interface handlers.
NextKey ==
  \/ SetKey
  \/ StaRemove
  \/ RemoveInterface

SpecKey == Init /\ [][NextKey]_vars

\* The aggregation handler with the handlers that write what it reads.
NextAmpdu ==
  \/ AddStation
  \/ AmpduAction
  \/ StaRemove

SpecAmpdu == Init /\ [][NextAmpdu]_vars

\* The same handlers, restricted to the TX session and with ba_hist kept.
NextTxSession ==
  \/ AddStation
  \/ TxSession
  \/ StaRemoveSession

SpecTxSession == Init /\ [][NextTxSession]_vars

\* The connection-quality monitor with the handlers that set it up.
NextCqm ==
  \/ AddStation
  \/ BssInfoCqm
  \/ CqmBeacon

SpecCqm == Init /\ [][NextCqm]_vars

\* The EDCA parameter handler on its own.
NextEdca == ConfTx

SpecEdca == Init /\ [][NextEdca]_vars

\* start, stop and the receive path, with the interface handlers; the
\* device may have been left up or down.
InitLink ==
  /\ iface_down \in BOOLEAN
  /\ ant_in_use = ANTENNA_SEL_INT
  /\ dfs_region = RSI_REGION_WORLD
  /\ country = <<"0", "0">>
  /\ num_supp_bands = 1
  /\ sband = [c \in Chans5G |-> {}]
  /\ Attached

NextLink ==
  \/ Start
  \/ StartRxFilter
  \/ Stop
  \/ AddStation
  \/ RemoveInterface
  \/ IndicatePkt
  \/ DeliverPkt

SpecLink == InitLink /\ [][NextLink]_vars

\* The simple setters, for a device with one or two bands and, when it has
\* the 5 GHz band, any flags on its channels (no handler reads them when it
\* has one band).
InitSetters ==
  /\ iface_down = FALSE
  /\ ant_in_use = ANTENNA_SEL_INT
  /\ dfs_region = RSI_REGION_WORLD
  /\ country = <<"0", "0">>
  /\ num_supp_bands \in {1, 2}
  /\ sband \in [Chans5G -> SUBSET ChanFlags]
  /\ num_supp_bands = 1 => sband = [c \in Chans5G |-> {}]
  /\ Attached

NextSetters ==
  \/ ConfFilter
  \/ SetAntenna
  \/ GetAntenna
  \/ RegNotify

SpecSetters == InitSetters /\ [][NextSetters]_vars

\* The handlers that write the key cache and the TX session, with the
\* removal and the re-adding of the interface.
NextTeardown ==
  \/ AddStation
  \/ LoadKey
  \/ TxStartOperational
  \/ RemoveStored

SpecTeardown == Init /\ [][NextTeardown]_vars

\* Every command of set_key for a pairwise key, every action of ampdu_action
\* on one tid and sequence number, and set_antenna by its tx selector: the
\* paths of the three handlers past mutex_lock.
KeyPaths ==
  \E cmd \in {"SET_KEY", "DISABLE_KEY", "OTHER_CMD"}, c \in Ciphers :
    \E ok1 \in Outcome(cmd = "SET_KEY" /\ c # CIPHER_NOT_WEP) :
      \E ok2 \in Outcome(cmd = "DISABLE_KEY" \/ (cmd = "SET_KEY" /\ ok1)) :
        rsi_mac80211_set_key(cmd, TRUE, c, ok1, ok2)

AmpduPaths ==
  \E v \in AmpduVifs, action \in AmpduActions, b \in BufSizes :
    \E ok \in Outcome(action \notin {"TX_START", "OTHER_ACTION"}) :
      /\ rsi_mac80211_ampdu_action(v, action, 0, 0, b, 0, ok)
      /\ UNCHANGED ba_hist

AntennaPaths ==
  \E tx \in AntArgs :
    \E ok \in Outcome(~AntennaInvalid(tx, 0) /\ ant_in_use # AntennaOf(tx)) :
      rsi_mac80211_set_antenna(tx, 0, ok)

\* The handlers with a failure path of their own past mutex_lock, with the
\* handlers that set up what they read.
NextLock ==
  \/ AddStation
  \/ KeyPaths
  \/ AmpduPaths
  \/ AntennaPaths

SpecLock == Init /\ [][NextLock]_vars

\* The callers of the child buses of one MDIO multiplexer.
MuxEnter ==
  \E t \in MuxCallers, op \in MuxOps, child \in ChildBuses :
    mdio_mux_enter(t, op, child)
MuxLock == \E t \in MuxCallers : mdio_mux_lock(t)
MuxSwitch == \E t \in MuxCallers, r \in SwitchRets : mdio_mux_switch(t, r)
MuxTransfer ==
  \E t \in MuxCallers :
    \E r \in XferRets(mux.proc[t].op) : mdio_mux_transfer(t, r)
MuxUnlock == \E t \in MuxCallers : mdio_mux_unlock(t)

NextMdio ==
  \/ MuxEnter
  \/ MuxLock
  \/ MuxSwitch
  \/ MuxTransfer
  \/ MuxUnlock

SpecMdio == Init /\ [][NextMdio]_vars

\* ===================================================================== claims
\* Shorthands over the history variables.
IsAdd == call.name = "add_interface"
IsRemove == call.name = "remove_interface"
IsChannelChange ==
  call.name = "config" /\ "CHANNEL" \in call.changed /\ nullptr # "fault"
\* A channel change entered with an interface stored and associated.
AssocChannelChange == IsChannelChange /\ pre.vifs[0] # NULL /\ call.assoc
IsBlockCmd(c) == c.cmd = "BLOCK_QUEUES" /\ c.arg = <<TRUE>>
IsUnblockCmd(c) == c.cmd = "BLOCK_QUEUES" /\ c.arg = <<FALSE>>
IsSetKey(cmd) == call.name = "set_key" /\ call.cmd = cmd

\* C1: whenever a station interface is already stored, add_interface(station)
\* returns -EOPNOTSUPP, issues no capability-add command and leaves the
\* interface count and the stored interface unchanged.
C1_SecondAddRejected ==
  (IsAdd /\ VifType(call.vif) = "STATION" /\ pre.vifs[0] # NULL)
    => /\ ret = -EOPNOTSUPP
       /\ cmds = <<>>
       /\ sc_nvifs = pre.sc_nvifs
       /\ vifs = pre.vifs

\* C2: in every state reachable by add_interface and remove_interface calls
\* the interface count is 0 or 1 (looked at in the runs where no handler has
\* gone through a null interface pointer).
C2_CountZeroOrOne == nullptr = "none" => sc_nvifs \in {0, 1}

\* C3: remove_interface with an interface other than the stored one leaves
\* the stored interface unchanged; the stored interface is cleared only by a
\* remove_interface whose argument is the stored interface.
C3_RemoveNonMatching ==
  /\ (IsRemove /\ call.vif # pre.vifs[0]) => vifs = pre.vifs
  /\ (pre.vifs[0] # NULL /\ vifs[0] = NULL)
       => (IsRemove /\ call.vif = pre.vifs[0])

\* C3 witness: an interface is stored, remove_interface was called with
\* another one, and the stored interface is still there.
C3_Witness ==
  /\ IsRemove
  /\ pre.vifs[0] # NULL
  /\ call.vif # pre.vifs[0]
  /\ vifs[0] = pre.vifs[0]

\* C4: when the capability-add command of add_interface(station) fails with
\* no interface present, the failure is returned and the device is as before
\* the call: nothing stored, count 0.
C4_FailedAddRollsBack ==
  (/\ IsAdd
   /\ pre.sc_nvifs = 0
   /\ pre.vifs[0] = NULL
   /\ cmds # <<>>
   /\ ~cmds[1].ok)
    => /\ ret # 0
       /\ vifs[0] = NULL
       /\ sc_nvifs = 0

\* C5 as stated: in a channel change while associated to a channel other
\* than the connected one, the data queues are blocked at the moment the
\* channel-set command is issued.
C5_BlockedAtChannelSet ==
  \A i \in DOMAIN cmds :
    (/\ AssocChannelChange
     /\ nullptr = "none"
     /\ call.chan # call.conn
     /\ cmds[i].cmd = "SET_CHANNEL")
      => cmds[i].blk

\* C5 amended: in such a channel change a block command is issued before the
\* channel-set command unless the queues are already blocked, and the queues
\* are blocked when the channel-set command is issued exactly when they were
\* already blocked or that block command succeeded.
C5_BlockedAtChannelSetIfBlockOk ==
  \A i \in DOMAIN cmds :
    (/\ AssocChannelChange
     /\ call.chan # call.conn
     /\ cmds[i].cmd = "SET_CHANNEL")
      => IF pre.hw_data_qs_blocked
           THEN cmds[i].blk /\ ~IsBlockCmd(cmds[1])
           ELSE IsBlockCmd(cmds[1]) /\ i > 1 /\ cmds[i].blk = cmds[1].ok

\* C5 witness: a channel change away from the connected channel while
\* associated whose block command succeeded and whose channel-set command was
\* issued with the queues blocked.
C5_Witness ==
  /\ AssocChannelChange
  /\ call.chan # call.conn
  /\ ~pre.hw_data_qs_blocked
  /\ Len(cmds) >= 3
  /\ IsBlockCmd(cmds[1]) /\ cmds[1].ok
  /\ cmds[3].cmd = "SET_CHANNEL" /\ cmds[3].blk

\* The channel-set command of the last call succeeded.
ChannelSetOk == \E i \in DOMAIN cmds : cmds[i].cmd = "SET_CHANNEL" /\ cmds[i].ok

\* C6 as stated: while associated with the queues blocked, a channel change
\* to the connected channel whose channel-set command succeeds ends with the
\* queues unblocked.
C6_SwitchBackUnblocks ==
  (/\ AssocChannelChange
   /\ nullptr = "none"
   /\ pre.hw_data_qs_blocked
   /\ call.chan = call.conn
   /\ ChannelSetOk)
    => ~hw_data_qs_blocked

\* C6 amended: such a channel change issues an unblock command after the
\* channel-set command and ends with the queues unblocked exactly when that
\* unblock command succeeds.
C6_SwitchBackUnblocksIfUnblockOk ==
  (/\ AssocChannelChange
   /\ pre.hw_data_qs_blocked
   /\ call.chan = call.conn
   /\ ChannelSetOk)
    => \E i \in DOMAIN cmds :
         /\ i > 1
         /\ cmds[i - 1].cmd = "SET_CHANNEL"
         /\ IsUnblockCmd(cmds[i])
         /\ hw_data_qs_blocked = ~cmds[i].ok

\* C6 witness: blocked before, switched back to the connected channel, the
\* channel-set and unblock commands succeeded, unblocked now.
C6_Witness ==
  /\ AssocChannelChange
  /\ pre.hw_data_qs_blocked
  /\ call.chan = call.conn
  /\ ChannelSetOk
  /\ \E i \in DOMAIN cmds : IsUnblockCmd(cmds[i]) /\ cmds[i].ok
  /\ ~hw_data_qs_blocked

\* The queues went from blocked to unblocked only in a channel change to the
\* connected channel or in a channel change while not associated.
UnblockedOnlyBySwitchBack ==
  (pre.hw_data_qs_blocked /\ ~hw_data_qs_blocked)
    => /\ IsChannelChange
       /\ (~call.assoc \/ call.chan = call.conn)

\* C7 as stated: while associated, a channel change to a channel other than
\* the connected one leaves the queues blocked when it returns, and they stay
\* blocked until a channel change back to the connected channel or a channel
\* change while not associated.
C7_NewChannelLeavesBlocked ==
  /\ (AssocChannelChange /\ nullptr = "none" /\ call.chan # call.conn)
       => hw_data_qs_blocked
  /\ UnblockedOnlyBySwitchBack

\* C7 amended: such a channel change leaves the queues blocked when it
\* returns exactly when they were already blocked or its block command
\* succeeded; once blocked they stay blocked until a channel change back to
\* the connected channel or a channel change while not associated.
C7_NewChannelLeavesBlockedIfBlockOk ==
  /\ (AssocChannelChange /\ call.chan # call.conn)
       => hw_data_qs_blocked =
            (pre.hw_data_qs_blocked \/ (IsBlockCmd(cmds[1]) /\ cmds[1].ok))
  /\ UnblockedOnlyBySwitchBack

\* C7 witness: the queues were blocked by an earlier channel change, stayed
\* blocked, and another channel change away from the connected channel while
\* associated has returned with them still blocked.
C7_Witness ==
  /\ AssocChannelChange
  /\ call.chan # call.conn
  /\ pre.hw_data_qs_blocked
  /\ hw_data_qs_blocked

\* C8 as stated: between control-plane operations, hw_data_qs_blocked is true
\* only if the interface is associated (looked at while an interface is
\* stored, in the runs where no handler has gone through a null pointer).
C8_BlockedOnlyIfAssociated ==
  (hw_data_qs_blocked /\ nullptr = "none" /\ vifs[0] # NULL)
    => bss.assoc

\* C8 amended: hw_data_qs_blocked becomes true only in a channel change that
\* reads the interface as associated, leaves the connected channel and whose
\* block command succeeds; bss_info_changed (association or disassociation)
\* leaves the flag as it was, so it can be true while not associated.
C8_BlockedOnlyByAssocChannelChange ==
  /\ (~pre.hw_data_qs_blocked /\ hw_data_qs_blocked)
       => /\ IsChannelChange
          /\ call.assoc
          /\ call.chan # call.conn
          /\ IsBlockCmd(cmds[1]) /\ cmds[1].ok
  /\ call.name = "bss_info_changed"
       => hw_data_qs_blocked = pre.hw_data_qs_blocked

\* C8 witness: the stored interface has just been reported disassociated and
\* the queues are still blocked.
C8_Witness ==
  /\ call.name = "bss_info_changed"
  /\ "ASSOC" \in call.changed
  /\ ~call.assoc
  /\ vifs[0] = call.vif
  /\ hw_data_qs_blocked
  /\ nullptr = "none"

\* C9: after set_key(SET_KEY) with cipher C returns 0, security_enable is
\* true and C is cached in the pairwise slot when the key is pairwise,
\* otherwise in the group slot; the other slot keeps its value.
C9_SetKeyCachesCipher ==
  (IsSetKey("SET_KEY") /\ ret = 0)
    => /\ secinfo.security_enable
       /\ IF call.pairwise
            THEN /\ secinfo.ptk_cipher = call.cipher
                 /\ secinfo.gtk_cipher = pre.secinfo.gtk_cipher
            ELSE /\ secinfo.gtk_cipher = call.cipher
                 /\ secinfo.ptk_cipher = pre.secinfo.ptk_cipher

\* C9 witness: a successful pairwise SET_KEY with a cipher other than the
\* one cached in the group slot, which is not empty.
C9_Witness ==
  /\ IsSetKey("SET_KEY")
  /\ ret = 0
  /\ call.pairwise
  /\ secinfo.ptk_cipher = call.cipher
  /\ pre.secinfo.gtk_cipher # 0
  /\ pre.secinfo.gtk_cipher # call.cipher

\* C10: after set_key(DISABLE_KEY) returns 0, security_enable is false and
\* the cached pairwise and group ciphers are cleared.
C10_DisableClearsCiphers ==
  (IsSetKey("DISABLE_KEY") /\ ret = 0)
    => /\ ~secinfo.security_enable
       /\ secinfo.ptk_cipher = 0
       /\ secinfo.gtk_cipher = 0

\* C11: in every state reached by set_key, sta_remove and remove_interface
\* calls, a non-empty cached pairwise or group cipher implies that
\* security_enable is true.
C11_CipherImpliesSecurity ==
  (secinfo.ptk_cipher # 0 \/ secinfo.gtk_cipher # 0)
    => secinfo.security_enable

\* C12: a set_key(SET_KEY) whose key load failed returns the failure and
\* leaves security_enable and both cached ciphers at their values before the
\* call.
C12_FailedSetKeepsCache ==
  (IsSetKey("SET_KEY") /\ cmds # <<>> /\ ~cmds[Len(cmds)].ok)
    => /\ ret # 0
       /\ secinfo = pre.secinfo

\* Shorthands for the aggregation handler.
IsAmpdu(action) == call.name = "ampdu_action" /\ call.action = action
IsTxStop == call.name = "ampdu_action" /\ call.action \in TxStopActions
\* c is the aggregation command for tid carrying seq, of the given type.
IsAggCmd(c, tid, seq, type) ==
  /\ c.cmd = "AGGREGATION_PARAMS"
  /\ c.arg[1] = tid
  /\ c.arg[2] = seq
  /\ c.arg[4] = type
\* The sequence number carried by the command of the last call.
SentSeq == cmds[1].arg[2]

\* C13: when ampdu_action(TX_START, tid t, ssn s) is followed by
\* ampdu_action(TX_OPERATIONAL, tid t) for the same interface, which holds
\* a slot, the second call issues exactly one command, the add-block-ack
\* (TX, done) for tid t carrying s, whatever ssn it was itself passed.
C13_OperationalSendsStartSsn ==
  [][(/\ IsAmpdu("TX_START")
      /\ call'.name = "ampdu_action"
      /\ call'.action = "TX_OPERATIONAL"
      /\ call'.vif = call.vif
      /\ call'.tid = call.tid
      /\ call'.ii < RSI_MAX_VIFS)
       => /\ Len(cmds') = 1
          /\ IsAggCmd(cmds'[1], call.tid, call.ssn, "STA_TX_ADDBA_DONE")]_vars

\* C13 witness: a TX_OPERATIONAL for an interface holding a slot sent a
\* recorded number that is neither zero nor the ssn the call was passed.
C13_Witness ==
  /\ IsAmpdu("TX_OPERATIONAL")
  /\ call.ii < RSI_MAX_VIFS
  /\ IsAggCmd(cmds[1], call.tid, pre.vif_info[call.ii].seq_start,
              "STA_TX_ADDBA_DONE")
  /\ SentSeq # 0
  /\ SentSeq # call.ssn

\* C14: a TX_OPERATIONAL for tid t that comes after a TX stop action for t,
\* with no TX_START in between, sends the sequence number recorded by the
\* last TX_START.
C14_StopKeepsStartSsn ==
  (/\ IsAmpdu("TX_OPERATIONAL")
   /\ call.tid \in ba_hist.stopped
   /\ ba_hist.last # NoStart)
    => SentSeq = ba_hist.last.ssn

\* C14 as amended: a TX stop action leaves vif_info as it was, and the
\* TX_OPERATIONAL that comes after it with no TX_START in between sends the
\* number recorded by the last TX_START unless sta_remove ran since that
\* TX_START, and then it sends 0.
C14_StopKeepsStartSsnUnlessReset ==
  /\ IsTxStop => vif_info = pre.vif_info
  /\ (/\ IsAmpdu("TX_OPERATIONAL")
      /\ call.tid \in ba_hist.stopped
      /\ ba_hist.last # NoStart)
       => SentSeq = IF ba_hist.reset THEN 0 ELSE ba_hist.last.ssn

\* C14 witness: a TX_OPERATIONAL after a TX stop action for its tid, with
\* no sta_remove since the last TX_START, sent the non-zero number of that
\* TX_START.
C14_Witness ==
  /\ IsAmpdu("TX_OPERATIONAL")
  /\ call.tid \in ba_hist.stopped
  /\ ~ba_hist.reset
  /\ ba_hist.last.ssn > 0
  /\ SentSeq = ba_hist.last.ssn

\* C15: after TX_START(tid a, ssn x) and then TX_START(tid b, ssn y) with
\* b # a, TX_OPERATIONAL(tid a) sends the add-block-ack command for tid a
\* carrying x.
C15_StartSsnPerTid ==
  (/\ IsAmpdu("TX_OPERATIONAL")
   /\ ba_hist.before.tid = call.tid
   /\ ba_hist.last.tid # call.tid
   /\ ~ba_hist.reset)
    => IsAggCmd(cmds[1], call.tid, ba_hist.before.ssn, "STA_TX_ADDBA_DONE")

\* C16: every TX stop action issues the delete-block-ack (TX) command for
\* its tid; the stack is told that the session stopped if and only if the
\* command succeeded, and then 0 is returned; when the command failed the
\* failure is returned and the stack is told nothing.
C16_StopNotifiedIffOk ==
  IsTxStop
    => /\ Len(cmds) = 1
       /\ IsAggCmd(cmds[1], call.tid, call.ssn, "STA_TX_DELBA")
       /\ IF cmds[1].ok
            THEN /\ ret = 0
                 /\ upcalls = <<Upcall("ieee80211_stop_tx_ba_cb_irqsafe",
                                       call.vif, call.tid)>>
            ELSE /\ ret # 0
                 /\ upcalls = <<>>

\* C16 witness: a flush stop whose command failed.
C16_Witness ==
  /\ IsAmpdu("TX_STOP_FLUSH")
  /\ ~cmds[1].ok
  /\ ret # 0
  /\ upcalls = <<>>

\* Shorthands for the connection-quality monitor.
IsCqm == call.name = "perform_cqm"
\* The event the last call reported to the stack.
EmittedEvent == IF upcalls = <<>> THEN "NONE" ELSE upcalls[1].arg[1]
\* The event the test gives when l - h and l + h are signed integers and
\* "no prior report" means that no event was raised since the monitor was
\* configured.
SignedTestEvent ==
  LET s == call.rssi
      t == pre.cqm_info.rssi_thold
      h == pre.cqm_info.rssi_hyst
      l == cqm_fed.prior
      none == l = NoReport
  IN IF s < t /\ (none \/ s < l - h) THEN "LOW"
     ELSE IF s > t /\ (none \/ s > l + h) THEN "HIGH"
     ELSE "NONE"

\* C17: the monitor raises "low" exactly when s < t and (no prior report or
\* s < l - h), otherwise "high" exactly when s > t and (no prior report or
\* s > l + h), otherwise nothing, l - h and l + h being signed integers.
C17_EventBySignedTest == IsCqm => EmittedEvent = SignedTestEvent

\* The events of the four readings of Readings, in order.
ReadingsTrace == <<"HIGH", "LOW", "NONE", "NONE">>

\* C18: with threshold -70, hysteresis 5 and no prior report, the readings
\* -60, -75, -72, -80 raise two events in all: the first reading raises one,
\* -75 raises "low", and -72 and -80 raise none.
C18_ReadingsRaiseTwoEvents ==
  (/\ cqm_info.rssi_thold = -70
   /\ cqm_info.rssi_hyst = 5
   /\ cqm_fed.on)
    => /\ \A i \in DOMAIN cqm_fed.trace : cqm_fed.trace[i] = ReadingsTrace[i]
       /\ Cardinality({i \in DOMAIN cqm_fed.trace :
                         cqm_fed.trace[i] # "NONE"}) <= 2

\* C18 witness: all four readings were evaluated under that configuration.
C18_Witness ==
  /\ cqm_info.rssi_thold = -70
  /\ cqm_info.rssi_hyst = 5
  /\ cqm_fed.on
  /\ cqm_fed.trace = ReadingsTrace
  /\ call.rssi = Readings[Len(Readings)]

\* C19: with threshold and hysteresis unchanged, the event the monitor
\* raises is never of the kind of the event it raised before.
C19_NoRepeatedKind ==
  (IsCqm /\ EmittedEvent # "NONE" /\ cqm_fed.prior # NoReport)
    => EmittedEvent # cqm_fed.prior_kind

\* C19 as amended: an event is raised only across the threshold ("low" below
\* it, "high" above it), and an event of the kind of the one before it is
\* raised only for a reading beyond the last reported one by more than the
\* hysteresis, in the unsigned comparison of the code, or when the last
\* reported reading is 0, which the monitor takes for no report.
C19_RepeatOnlyBeyondHysteresis ==
  LET s == call.rssi
      l == cqm_fed.prior
      h == pre.cqm_info.rssi_hyst
  IN /\ (IsCqm /\ EmittedEvent = "LOW") => s < pre.cqm_info.rssi_thold
     /\ (IsCqm /\ EmittedEvent = "HIGH") => s > pre.cqm_info.rssi_thold
     /\ (/\ IsCqm
         /\ EmittedEvent # "NONE"
         /\ l # NoReport
         /\ EmittedEvent = cqm_fed.prior_kind)
          => \/ l = 0
             \/ EmittedEvent = "LOW" /\ U32Less(s, l - h)
             \/ EmittedEvent = "HIGH" /\ U32Less(l + h, s)

\* C19 witness: a second "low" in a row, for a reading more than a non-zero
\* hysteresis below the last reported one.
C19_Witness ==
  /\ IsCqm
  /\ EmittedEvent = "LOW"
  /\ cqm_fed.prior_kind = "LOW"
  /\ pre.cqm_info.rssi_hyst > 0
  /\ call.rssi < cqm_fed.prior - pre.cqm_info.rssi_hyst

\* C20: conf_tx with a queue index outside the four access categories
\* returns 0, does not take the mutex, issues no command and leaves the four
\* stored EDCA parameter sets as they were.
C20_BadQueueIgnored ==
  (call.name = "conf_tx" /\ call.queue >= IEEE80211_NUM_ACS)
    => /\ ret = 0
       /\ ~call.locked
       /\ cmds = <<>>
       /\ edca_params = pre.edca_params

\* C20 witness: such a call, with parameters that differ from the stored
\* best-effort set, after an in-range call stored a non-zero set.
C20_Witness ==
  /\ call.name = "conf_tx"
  /\ call.queue >= IEEE80211_NUM_ACS
  /\ \E q \in EdcaQueues : edca_params[q] # 0
  /\ edca_params["BE_Q"] # call.params

\* The flags set in a filter word.
FlagsOf(w) == {i \in 0..(MaxFilterBit + 1) : (w \div (2 ^ i)) % 2 = 1}

\* C21: conf_filter leaves in *total_flags exactly the flags that are both
\* requested and supported, issues no firmware command and changes nothing
\* of the device state.
C21_FilterIsIntersection ==
  call.name = "conf_filter"
    => /\ FlagsOf(ret) = FlagsOf(call.flags) \cap FlagsOf(RSI_SUPP_FILTERS)
       /\ cmds = <<>>
       /\ DevState = pre

\* C21 witness: a request with a supported and an unsupported flag came back
\* with the supported one alone.
C21_Witness ==
  /\ call.name = "conf_filter"
  /\ FlagsOf(call.flags) \ FlagsOf(RSI_SUPP_FILTERS) # {}
  /\ FlagsOf(ret) # {}
  /\ FlagsOf(ret) = FlagsOf(call.flags) \cap FlagsOf(RSI_SUPP_FILTERS)

\* The region code the mapping is to give for a dfs_region value.
RegionTable(region) ==
  IF region = NL80211_DFS_FCC THEN RSI_REGION_FCC
  ELSE IF region = NL80211_DFS_ETSI THEN RSI_REGION_ETSI
  ELSE IF region = NL80211_DFS_JP THEN RSI_REGION_TELEC
  ELSE RSI_REGION_WORLD

\* C22: after reg_notify the cached region is FCC, ETSI or TELEC for the
\* dfs_region values FCC, ETSI and JP, and WORLD for UNSET and for every
\* other value.
C22_RegionMapped ==
  call.name = "reg_notify" => dfs_region = RegionTable(call.region)

\* C22 witness: a request with a dfs_region that is none of the four named
\* values changed the cached region to WORLD.
C22_Witness ==
  /\ call.name = "reg_notify"
  /\ call.region > NL80211_DFS_JP
  /\ pre.dfs_region # RSI_REGION_WORLD
  /\ dfs_region = RSI_REGION_WORLD

\* C23: set_antenna with a tx or rx selector other than 0 and 1 returns
\* -EINVAL, issues no firmware command and leaves ant_in_use unchanged.
C23_BadSelectorRejected ==
  (call.name = "set_antenna"
   /\ (call.tx_ant \notin {0, 1} \/ call.rx_ant \notin {0, 1}))
    => /\ ret = -EINVAL
       /\ cmds = <<>>
       /\ ant_in_use = pre.ant_in_use

\* C23 witness: a call with a valid tx selector that asks for the other
\* antenna and an rx selector of 2 was rejected.
C23_Witness ==
  /\ call.name = "set_antenna"
  /\ call.tx_ant \in {0, 1}
  /\ AntennaOf(call.tx_ant) # pre.ant_in_use
  /\ call.rx_ant = 2
  /\ ret = -EINVAL
  /\ cmds = <<>>

\* Shorthands for the configuration claims: the last call is a config call
\* that ran to its end, and a command of the given opcode that it issued
\* failed or succeeded.
IsConfig == call.name = "config" /\ nullptr # "fault"
CmdFailed(c) == \E i \in DOMAIN cmds : cmds[i].cmd = c /\ ~cmds[i].ok
CmdOk(c) == \E i \in DOMAIN cmds : cmds[i].cmd = c /\ cmds[i].ok
ChannelChangeFailed == CmdFailed("BAND_CHECK") \/ CmdFailed("SET_CHANNEL")

\* C24: when the radio-parameter-update command of a power change fails, the
\* call returns a failure and the cached transmit power is what it was before
\* the call.
C24_FailedPowerKeepsCache ==
  (IsConfig /\ "POWER" \in call.changed /\ CmdFailed("RADIO_PARAMS"))
    => /\ ret # 0
       /\ tx_power = pre.tx_power

\* C25: a config call whose changed flags include the channel flag returns a
\* failure whenever its band check or its channel-set command failed.
C25_ChannelFailureReturned ==
  (IsChannelChange /\ ChannelChangeFailed) => ret # 0

\* The control-plane handlers that send firmware commands.
ControlOps ==
  {"start", "stop", "add_interface", "remove_interface", "config",
   "bss_info_changed", "set_key", "ampdu_action", "sta_remove",
   "set_antenna"}

\* C26: every firmware command of a control-plane handler is issued while
\* the handler holds the mutex.
C26_CommandsUnderLock ==
  (call.name \in ControlOps /\ cmds # <<>>) => call.locked

\* C27: a frame goes to ieee80211_rx_irqsafe only while the device is up
\* (iface_down clear: start was the last of start and stop to run) and an
\* interface is counted.
C27_NoDeliveryWhileDown ==
  (call.name = "indicate_pkt" /\ upcalls # <<>>)
    => /\ ~iface_down
       /\ sc_nvifs # 0

\* C28: a remove_interface of the stored interface leaves both cached
\* ciphers cleared, and a TX_OPERATIONAL that follows a removal with no
\* TX_START in between does not send the sequence number recorded before the
\* removal.
C28_RemoveResetsKeysAndSessions ==
  /\ (IsRemove /\ pre.vifs[0] # NULL /\ call.vif = pre.vifs[0])
       => /\ secinfo.ptk_cipher = 0
          /\ secinfo.gtk_cipher = 0
  /\ (/\ IsAmpdu("TX_OPERATIONAL")
      /\ pre.vifs[0] # NULL
      /\ ba_hist.removed
      /\ ba_hist.last.ssn > 0)
       => SentSeq # ba_hist.last.ssn

\* C29: after a channel change, entered with an interface stored, whose band
\* check or channel-set command failed, hw_data_qs_blocked is what it was
\* before the call.
C29_FailedChangeKeepsBlocked ==
  (IsChannelChange /\ pre.vifs[0] # NULL /\ ChannelChangeFailed)
    => hw_data_qs_blocked = pre.hw_data_qs_blocked

\* C30: the status of a channel-only config call is that of the band check
\* and the channel-set command alone, whatever the outcome of the block and
\* unblock commands; and a channel change whose block or unblock command
\* failed leaves hw_data_qs_blocked as it was before the call.
C30_BlockOutcomeNotFatal ==
  /\ (IsChannelChange /\ call.changed = {"CHANNEL"})
       => ret = IF CmdOk("BAND_CHECK") /\ CmdOk("SET_CHANNEL") THEN 0
                ELSE FW_FAIL
  /\ (IsChannelChange /\ CmdFailed("BLOCK_QUEUES"))
       => hw_data_qs_blocked = pre.hw_data_qs_blocked

\* C30 witness: a channel-only change whose block command failed and whose
\* band check and channel-set command succeeded returned 0 with the queues
\* still unblocked.
C30_Witness ==
  /\ IsChannelChange
  /\ call.changed = {"CHANNEL"}
  /\ IsBlockCmd(cmds[1]) /\ ~cmds[1].ok
  /\ CmdOk("SET_CHANNEL")
  /\ ret = 0
  /\ ~hw_data_qs_blocked

\* C31: the receive path takes no lock and writes no field of the device
\* state.
C31_InboundWritesNothing ==
  call.name \in {"perform_cqm", "indicate_pkt"}
    => /\ ~call.locked
       /\ DevState = pre

\* C34: the slot index with which ampdu_action writes or reads seq_start is
\* less than RSI_MAX_VIFS.
C34_SlotIndexValid ==
  (call.name = "ampdu_action"
   /\ call.action \in {"TX_START", "TX_OPERATIONAL"})
    => call.ii < RSI_MAX_VIFS

\* C32 as stated: conf_tx for the background access category stores the
\* parameter set in the best-effort slot and leaves the other slots alone.
C32_BackgroundInBestEffortSlot ==
  (call.name = "conf_tx" /\ call.queue = IEEE80211_AC_BK)
    => edca_params = [pre.edca_params EXCEPT !["BE_Q"] = call.params]

\* C32 amended: conf_tx for the background access category stores the
\* parameter set in the background slot and leaves the best-effort slot and
\* the two others as they were; conf_tx for best-effort writes the
\* best-effort slot alone.
C32_BackgroundInOwnSlot ==
  /\ (call.name = "conf_tx" /\ call.queue = IEEE80211_AC_BK)
       => edca_params = [pre.edca_params EXCEPT !["BK_Q"] = call.params]
  /\ (call.name = "conf_tx" /\ call.queue = IEEE80211_AC_BE)
       => edca_params = [pre.edca_params EXCEPT !["BE_Q"] = call.params]

\* C32 witness: a background call stored a set that differs from the one the
\* best-effort slot holds, before and after the call.
C32_Witness ==
  /\ call.name = "conf_tx"
  /\ call.queue = IEEE80211_AC_BK
  /\ edca_params["BK_Q"] = call.params
  /\ pre.edca_params["BK_Q"] # call.params
  /\ edca_params["BE_Q"] # call.params
  /\ edca_params["BE_Q"] = pre.edca_params["BE_Q"]

\* C33: set_antenna with a valid selector sends the antenna command exactly
\* when the requested antenna differs from the cached one; a failed command
\* fails the call and leaves ant_in_use as it was, and otherwise ant_in_use is
\* the requested antenna; get_antenna reports ant_in_use.
C33_AntennaCachedAfterSuccess ==
  /\ (call.name = "set_antenna"
      /\ ~AntennaInvalid(call.tx_ant, call.rx_ant))
       => /\ (cmds # <<>>) <=> (AntennaOf(call.tx_ant) # pre.ant_in_use)
          /\ \A i \in DOMAIN cmds :
               /\ cmds[i].cmd = "SET_ANTENNA"
               /\ cmds[i].arg = <<AntennaOf(call.tx_ant)>>
          /\ CmdFailed("SET_ANTENNA") => /\ ret # 0
                                         /\ ant_in_use = pre.ant_in_use
          /\ ~CmdFailed("SET_ANTENNA") => /\ ret = 0
                                          /\ ant_in_use = AntennaOf(call.tx_ant)
  /\ call.name = "get_antenna"
       => /\ call.tx_ant = TxAntOf(ant_in_use)
          /\ ant_in_use = pre.ant_in_use

\* C33 witness: the antenna command failed on a request for the other
\* antenna, and the cached antenna is the old one.
C33_Witness ==
  /\ call.name = "set_antenna"
  /\ ~AntennaInvalid(call.tx_ant, call.rx_ant)
  /\ CmdFailed("SET_ANTENNA")
  /\ AntennaOf(call.tx_ant) # pre.ant_in_use
  /\ ant_in_use = pre.ant_in_use
  /\ ret = -EINVAL

C36_DeliveredAgainstStoredInterface ==
  (call.name = "indicate_pkt"
   /\ (upcalls # <<>> \/ pc.rx = "fault")
   /\ pc.seen # NULL)
    => vifs[0] # NULL

\* C37: a channel change or a remove_interface that runs while no interface
\* is stored reads nothing through the absent interface: no null pointer has
\* been read and no handler has faulted.
C37_AbsentInterfaceNotAccessed ==
  (pre.vifs[0] = NULL
   /\ \/ call.name = "remove_interface"
      \/ call.name = "config" /\ "CHANNEL" \in call.changed)
    => nullptr = "none"

\* C38: every transfer on the parent bus is made by the caller that holds
\* mdio_lock, with the mux on that caller's child bus and current_child equal
\* to its bus number; a call whose switch_fn failed makes no transfer,
\* returns what switch_fn returned and leaves current_child as it was, and a
\* call whose switch_fn succeeded makes exactly one transfer.
C38_TransferOnOwnChild ==
  /\ mux.last.kind = "transfer"
       => /\ mux.last.holder = mux.last.t
          /\ mux.last.sel = mux.last.child
          /\ mux.last.cur = mux.last.child
          /\ mux.last.sw = 0
  /\ (mux.last.kind = "return" /\ mux.last.sw # 0)
       => /\ mux.last.xfers = 0
          /\ mux.last.r = mux.last.sw
          /\ mux.last.cur = mux.last.cur0
  /\ (mux.last.kind = "return" /\ mux.last.sw = 0)
       => /\ mux.last.xfers = 1
          /\ mux.last.cur = mux.last.child
  /\ \A t \in MuxCallers :
       mux.proc[t].pc \in {"locked", "switched", "out"} => mux.mdio_lock = t

\* C38 witness: a caller has made its transfer on one child bus while another
\* caller waits for the lock with a call on a different child bus, and the mux
\* was on that other child before.
C38_Witness ==
  /\ mux.last.kind = "transfer"
  /\ mux.last.cur0 \in ChildBuses
  /\ mux.last.cur0 # mux.last.child
  /\ \E u \in MuxCallers :
       /\ u # mux.last.t
       /\ mux.proc[u].pc = "wait"
       /\ mux.proc[u].child = mux.last.cur0
====
